---------------------------- MODULE Spec2Model ----------------------------
(***************************************************************************)
(* The device manager of the LAMMPS accelerator library                    *)
(* (lib/gpu/device.cpp, class Device<numtyp,acctyp>, the process-wide      *)
(* object global_device) seen from one MPI process.                        *)
(*                                                                         *)
(* The state is the manager's fields.  The process's surroundings (the     *)
(* host names of the ranks of the world communicator, its own rank, the    *)
(* accumulation type the library was built with) are fixed when the        *)
(* process starts.  The classes the manager only calls (Atom, Answer,      *)
(* Neighbor, NeighborShared, UCL_Device, UCL_Program) are represented by   *)
(* what the manager can observe of them: whether a call succeeded and      *)
(* whether the object holds device storage.                                *)
(***************************************************************************)
EXTENDS Integers, Sequences, FiniteSets, TLC

(***************************************************************************)
(* Bounds of the model.                                                    *)
(***************************************************************************)
\* largest attach count explored (init is not called beyond it)
MaxInit == 2
\* number of physical devices present on the node (UCL_Device::num_devices)
NumDevices == 2
\* the device ranges <<first_gpu, last_gpu>> passed to init_device
GpuRanges == { <<0, 0>>, <<0, 1>>, <<1, 1>>, <<2, 2>> }

\* host names are numbered; the numbers are ordered as the strings are
Worlds == { <<1>>, <<1, 1>>, <<1, 1, 1>>, <<2, 1, 1>>,
            <<1, 1, 1, 1, 2, 2, 2, 2>> }
GpuModes == {"GPU_FORCE", "GPU_NEIGH"}
ThreadCounts == {1, 2}                 \* nthreads
ThreadsPerAtom == {0, 3}               \* t_per_atom
PPPMHandles == {1}                     \* addresses of PPPM clients
\* largest warp size for which the lane counts are resolved on their own
MaxWarp == 8
\* init_device calls each process of a world makes
MaxCalls == 2

VARIABLES
  \* ---- the process's surroundings, fixed for its lifetime
  names,                 \* names[r+1]: host name of world rank r
  me,                    \* this process's world rank
  acc_double,            \* sizeof(acctyp)==sizeof(double)
  \* ---- fields of Device
  _init_count, _device_init, _compiled,
  dev_program,           \* "null", "live" or "deleted" (dangling)
  gpu,                   \* [obj: "null"|"live"|"deleted", dev: -1 (none set) or index]
  atom,                  \* [alloc, charge, quat]: the shared Atom storage
  _neighbor_shared,      \* TRUE when the shared neighbor kernels/textures are held
  _data_in_estimate, _data_out_estimate,
  _long_range_precompute, pppm_single, pppm_double,
  _nthreads, _threads_per_atom, _threads_per_charge,
  _first_device, _last_device, _gpu_mode, _particle_split,
  comm,                  \* communicators, ranks and sizes
  _procs_per_gpu, _time_device,
  caps,                  \* the constants read back from kernel_info
  \* ---- observation of the calls made (not program state)
  op,                    \* the last call made
  ret,                   \* its return value (0 for the void calls)
  same_args,             \* the last call was init_device with the binding call's arguments
  bind_args,             \* <<nthreads, t_per_atom>> of the binding init_device
  bound_ok,              \* the init_device call that bound the manager returned 0
  cause,                 \* what went wrong inside the last call: "none", "index"
                         \* (device index out of range), "build" (load_string
                         \* failed), "arch" (the check of line 553 failed) or
                         \* "alloc" (a storage call reported failure)
  n_compile,             \* modules built since the manager was last Unbound
  bal, bal_any,          \* attach credits of the current init/clear sequence
  run, run_allocs,       \* successful inits in a row, and atom.init among them
  asked,                 \* the fields those inits requested: [charge, quat]
  \* ---- the lane resolution of compile_kernels taken on its own
  lanes,                 \* [requested, default, warp_size, resolved (0: not yet)]
  \* ---- init_device in all the processes of the world communicator
  mpi,                   \* [range, proc]: the range every process passes, and
                         \* for each world rank its manager and its call
  \* ---- a call of estimate_gpu_overhead in progress
  est,                   \* its position, locals and results, and the device
                         \* and collective operations of the current trial
  \* ---- observation of the precompute registrations
  reg,                   \* the last registration call: its precision (1
                         \* single, 2 double, 0 none made) and its argument
  \* ---- observation of the diagnostics
  diag,                  \* what the last output_times or output_kspace_times
                         \* call did: its reductions and what it printed
  \* ---- estimate_gpu_overhead in the processes of a per-device communicator
  grp,                   \* for each process its arguments, its position and
                         \* the collectives it has entered
  \* ---- a PairLJCutCoulLongOMP object
  pair                   \* its cutoffs, set flags and neighbor lists, with
                         \* the arguments and requests of the last call

env_vars == <<names, me, acc_double>>
life_vars == <<_init_count, atom, _neighbor_shared, _data_in_estimate,
               _data_out_estimate, _long_range_precompute, _compiled,
               dev_program>>
pppm_vars == <<pppm_single, pppm_double>>
conf_vars == <<_nthreads, _threads_per_atom, _threads_per_charge,
               _particle_split, _gpu_mode>>
topo_vars == <<_device_init, gpu, _first_device, _last_device, comm,
               _procs_per_gpu, _time_device>>
mgr_vars == <<life_vars, pppm_vars, conf_vars, topo_vars, caps>>
obs_vars == <<op, ret, same_args, bind_args, bound_ok, cause, n_compile, bal,
              bal_any, run, run_allocs, asked>>
more_vars == <<diag, grp, pair>>
side_vars == <<lanes, mpi, est, reg, more_vars>>
vars == <<env_vars, mgr_vars, obs_vars, side_vars>>

(***************************************************************************)
(* Topology (init_device, lines 66-121), for a world w: w[r+1] is the host *)
(* name of world rank r.                                                   *)
(***************************************************************************)
RanksOf(w) == 0 .. (Len(w) - 1)

\* MPI_Comm_rank in a communicator made with key 0: members keep world order
CommRank(c, r) == Cardinality({q \in c : q < r})

\* std::map<std::string,int> name_map: host name -> number of ranks on it
name_map(w) == [h \in {w[r + 1] : r \in RanksOf(w)} |->
                  Cardinality({r \in RanksOf(w) : w[r + 1] = h})]

\* name_map.begin(): a std::map iterates in key order
MapBegin(m) == CHOOSE h \in DOMAIN m : \A g \in DOMAIN m : h <= g

procs_per_node(w) == name_map(w)[MapBegin(name_map(w))]

\* position of r's host in the iteration order of name_map
split_id(w, r) == Cardinality({h \in DOMAIN name_map(w) : h < w[r + 1]})

\* MPI_Comm_split(_comm_world, split_id, 0, &node_comm)
node_comm(w, r) == {q \in RanksOf(w) : split_id(w, q) = split_id(w, r)}
node_rank(w, r) == CommRank(node_comm(w, r), r)

\* static_cast<int>(ceil(static_cast<double>(a)/b)) for a >= 0, b > 0
CeilDiv(a, b) == (a + b - 1) \div b

\* the processes per device with one device too many in the range
procs_per_gpu_extra_device(w, first_gpu, last_gpu) ==
  CeilDiv(procs_per_node(w), last_gpu - first_gpu + 2)

\* lines 110-111
procs_per_gpu(w, first_gpu, last_gpu) ==
  CeilDiv(procs_per_node(w), last_gpu - first_gpu + 1)

\* the device index without the offset of the range
my_gpu_from_zero(w, r, first_gpu, last_gpu) ==
  node_rank(w, r) \div procs_per_gpu(w, first_gpu, last_gpu)

\* the device index taken from the rank in the world
my_gpu_of_world_rank(w, r, first_gpu, last_gpu) ==
  (r \div procs_per_gpu(w, first_gpu, last_gpu)) + first_gpu

my_gpu(w, r, first_gpu, last_gpu) ==
  (node_rank(w, r) \div procs_per_gpu(w, first_gpu, last_gpu)) + first_gpu

\* MPI_Comm_split(node_comm,my_gpu,0,&_comm_gpu); every rank passes the same range
comm_gpu(w, r, first_gpu, last_gpu) ==
  {q \in node_comm(w, r) :
     my_gpu(w, q, first_gpu, last_gpu) = my_gpu(w, r, first_gpu, last_gpu)}

\* what init_device derives, for every world, rank and range of the model
Topology ==
  [w \in Worlds \cup {<<1>>} |->
    [r \in RanksOf(w) |->
      [g \in GpuRanges |->
        [procs_per_gpu |-> procs_per_gpu(w, g[1], g[2]),
         my_gpu |-> my_gpu(w, r, g[1], g[2]),
         comm_gpu |-> comm_gpu(w, r, g[1], g[2])]]]]

Ranks == RanksOf(names)

\* the replica communicators this process may be handed
Replicas == {Ranks, {me}}

(***************************************************************************)
(* The devices of the node, as UCL_Device reports them.                    *)
(***************************************************************************)
double_precision(k) == k % 2 = 0       \* gpu->double_precision()
arch(k) == 130                         \* gpu->arch(), in hundredths
group_size(k) == IF k = 0 THEN 8 ELSE 4  \* gpu->group_size()

\* h_gpu_lib_data as kernel_info may fill it; h_gpu_lib_data[i] is data[i+1]
GoodData == <<130, 4, 8, 4, 2, 2, 8, 3, 2, 2, 2, 6, 3, 2>>
LibData == { GoodData, [GoodData EXCEPT ![1] = 200] }

\* #ifdef USE_OPENCL: the CUDA build is modelled
USE_OPENCL == FALSE

NoCaps == [ptx_arch |-> 0, num_mem_threads |-> 0, warp_size |-> 0,
           pppm_max_spline |-> 0, pppm_block |-> 0, block_pair |-> 0,
           max_shared_types |-> 0, block_cell_2d |-> 0, block_cell_id |-> 0,
           block_nbor_build |-> 0, block_bio_pair |-> 0,
           max_bio_shared_types |-> 0]

NoComm == [world |-> {}, replica |-> {}, gpu |-> {}, world_me |-> 0,
           world_size |-> 0, replica_me |-> 0, replica_size |-> 0,
           gpu_rank |-> 0]

NoAtom == [alloc |-> FALSE, charge |-> FALSE, quat |-> FALSE]

\* no field requested
NoAsk == [charge |-> FALSE, quat |-> FALSE]


(***************************************************************************)
(* Device::Device and the zero-initialisation of the global object.        *)
(***************************************************************************)
\* W: the worlds the process may be started in; Acc: the builds of the library
Constructed ==
  /\ _init_count = 0 /\ _device_init = FALSE /\ _compiled = FALSE
  /\ dev_program = "null"
  /\ gpu = [obj |-> "null", dev |-> -1]
  /\ atom = NoAtom
  /\ _neighbor_shared = FALSE
  /\ _data_in_estimate = 0 /\ _data_out_estimate = 0
  /\ _long_range_precompute = 0 /\ pppm_single = 0 /\ pppm_double = 0
  /\ _nthreads = 0 /\ _threads_per_atom = 0 /\ _threads_per_charge = 0
  /\ _first_device = 0 /\ _last_device = 0 /\ _gpu_mode = "GPU_FORCE"
  /\ _particle_split = 0
  /\ comm = NoComm
  /\ _procs_per_gpu = 0 /\ _time_device = FALSE
  /\ caps = NoCaps
  /\ op = "construct" /\ ret = 0 /\ same_args = FALSE /\ bind_args = <<0, 0>>
  /\ bound_ok = FALSE /\ cause = "none"
  /\ n_compile = 0
  /\ bal = -1 /\ bal_any = FALSE /\ run = -1 /\ run_allocs = 0
  /\ asked = NoAsk

NoWorld == [range |-> <<0, 0>>, proc |-> <<>>]

NoLanes == [requested |-> 0, default |-> 1, warp_size |-> 1, resolved |-> 0]

\* the pair style as constructed (lines 50-54; allocated = 0 is set by the
\* constructor of Pair): no array allocated, no cutoff set, no list delivered
NewPair == [op |-> "new", error |-> FALSE, allocated |-> FALSE,
            setflag |-> <<>>, cut_lj |-> <<>>,
            cut_lj_global |-> 0, cut_coul |-> 0, cut_coulsq |-> 0,
            cut_respa |-> FALSE,
            list |-> 0, listinner |-> 0, listmiddle |-> 0, listouter |-> 0,
            requests |-> <<>>, args |-> <<>>]

\* no diagnostics call made yet
NoOut == [reduces |-> <<>>, printed |-> FALSE, categories |-> FALSE]

NoMore == diag = NoOut /\ grp = <<>> /\ pair = NewPair

\* no registration made yet
NoReg == [kind |-> 0, handle |-> 0]

\* no call of estimate_gpu_overhead made yet
NoEst == [pc |-> "idle", trial |-> 0, i |-> 0, log |-> <<>>,
          n_in |-> 0, n_out |-> 0, kernel_calls |-> 0,
          time |-> <<>>, driver_time |-> <<>>,
          mpi_time |-> <<>>, mpi_driver_time |-> <<>>,
          gpu_overhead |-> <<>>, gpu_driver_overhead |-> <<>>,
          totals |-> 0, sum_max |-> 0, sum_driver_max |-> 0]

InitOver(W, Acc) ==
  /\ names \in W
  /\ me \in 0 .. (Len(names) - 1)
  /\ acc_double \in Acc
  /\ Constructed
  /\ lanes = NoLanes
  /\ mpi = NoWorld
  /\ est = NoEst
  /\ reg = NoReg
  /\ NoMore

(***************************************************************************)
(* Device::compile_kernels (lines 529-587).                                *)
(***************************************************************************)
Min(a, b) == IF a < b THEN a ELSE b

\* the lane count without the clamp to the warp size (lines 577-578)
Lanes_unclamped(requested, default, warp_size) ==
  LET r1 == IF requested < 1 THEN default ELSE requested
  IN IF warp_size % r1 # 0 THEN 1 ELSE r1

\* lines 559-562 and 577-584: the lane count for a requested count
Lanes(requested, default, warp_size) ==
  LET r1 == IF requested < 1 THEN default ELSE requested
      r2 == IF r1 > warp_size THEN warp_size ELSE r1
  IN IF warp_size % r2 # 0 THEN 1 ELSE r2

\* compile_kernels without the architecture check of lines 552-555
compile_kernels_any_arch(c, dev, load_ok, data) ==
  IF c.compiled THEN [c EXCEPT !.flag = 0]
  ELSE IF ~load_ok THEN [c EXCEPT !.flag = -4, !.dev_program = "live"]
  ELSE [flag |-> 0, dev_program |-> "live", compiled |-> TRUE,
        caps |-> [ptx_arch |-> data[1], num_mem_threads |-> data[2],
                  warp_size |-> data[3], pppm_max_spline |-> data[5],
                  pppm_block |-> data[6],
                  block_pair |-> Min(data[7], group_size(dev)),
                  max_shared_types |-> data[8], block_cell_2d |-> data[9],
                  block_cell_id |-> data[10], block_nbor_build |-> data[11],
                  block_bio_pair |-> Min(data[12], group_size(dev)),
                  max_bio_shared_types |-> data[13]],
        tpa |-> Lanes(c.tpa, data[4], data[3]),
        tpc |-> Lanes(c.tpc, data[14], data[3])]

\* compile_kernels without the early return of lines 536-537
compile_kernels_again(c, dev, load_ok, data) ==
  IF ~load_ok THEN [c EXCEPT !.flag = -4, !.dev_program = "live"]
  ELSE IF ~USE_OPENCL /\ data[1] > arch(dev)
  THEN [c EXCEPT !.flag = -4, !.dev_program = "live", !.compiled = TRUE,
                 !.caps.ptx_arch = data[1]]
  ELSE [flag |-> 0, dev_program |-> "live", compiled |-> TRUE,
        caps |-> [ptx_arch |-> data[1], num_mem_threads |-> data[2],
                  warp_size |-> data[3], pppm_max_spline |-> data[5],
                  pppm_block |-> data[6],
                  block_pair |-> Min(data[7], group_size(dev)),
                  max_shared_types |-> data[8], block_cell_2d |-> data[9],
                  block_cell_id |-> data[10], block_nbor_build |-> data[11],
                  block_bio_pair |-> Min(data[12], group_size(dev)),
                  max_bio_shared_types |-> data[13]],
        tpa |-> Lanes(c.tpa, data[4], data[3]),
        tpc |-> Lanes(c.tpc, data[14], data[3])]

\* c: [compiled, dev_program, caps, tpa, tpc]; dev: the device gpu is set to;
\* load_ok: dev_program->load_string succeeded; data: what kernel_info wrote
compile_kernels(c, dev, load_ok, data) ==
  IF c.compiled THEN [c EXCEPT !.flag = 0]
  ELSE IF ~load_ok THEN [c EXCEPT !.flag = -4, !.dev_program = "live"]
  ELSE IF ~USE_OPENCL /\ data[1] > arch(dev)
  THEN [c EXCEPT !.flag = -4, !.dev_program = "live", !.compiled = TRUE,
                 !.caps.ptx_arch = data[1]]
  ELSE [flag |-> 0, dev_program |-> "live", compiled |-> TRUE,
        caps |-> [ptx_arch |-> data[1], num_mem_threads |-> data[2],
                  warp_size |-> data[3], pppm_max_spline |-> data[5],
                  pppm_block |-> data[6],
                  block_pair |-> Min(data[7], group_size(dev)),
                  max_shared_types |-> data[8], block_cell_2d |-> data[9],
                  block_cell_id |-> data[10], block_nbor_build |-> data[11],
                  block_bio_pair |-> Min(data[12], group_size(dev)),
                  max_bio_shared_types |-> data[13]],
        tpa |-> Lanes(c.tpa, data[4], data[3]),
        tpc |-> Lanes(c.tpc, data[14], data[3])]

(***************************************************************************)
(* Device::init_device (lines 44-134).                                     *)
(***************************************************************************)
\* the range check with the comparison taken as >
out_of_range_above(index) == index > NumDevices

\* line 124: my_gpu>=gpu->num_devices()
out_of_range(index) == index >= NumDevices

\* the timing flag left on whatever the division gives
time_device_always(ppg) == TRUE

\* the timing flag with the comparison of line 116 taken as >=
time_device_from_one(ppg) == ~(ppg >= 1)

\* lines 114-117: time on the device only with one process per device
time_device(ppg) == ~(ppg > 1)

\* init_device without the early return
never_bound == FALSE

\* lines 56-57: the call returns at once on a manager that is bound
already_bound == _device_init

\* the state from which init/clear sequences are counted
Restart == IF _device_init' /\ _init_count' = 0 THEN 0 ELSE -1

\* A: the sets the arguments are drawn from
InitDeviceOver(A) ==
  \E range \in A.range :
  LET first_gpu == range[1]
      last_gpu == range[2]
      \* lines 66-121, for this range
      ppg == Topology[names][me][range].procs_per_gpu
      mine == Topology[names][me][range].my_gpu
      cgpu == Topology[names][me][range].comm_gpu
  IN
  \E replica \in A.replica,
     gpu_mode \in A.gpu_mode, p_split \in A.p_split, nthreads \in A.nthreads,
     t_per_atom \in A.t_per_atom, load_ok \in BOOLEAN, data \in A.data :
    /\ op' = "init_device"
    /\ _nthreads' = nthreads
    /\ IF already_bound
       THEN /\ load_ok /\ data = CHOOSE d \in A.data : TRUE  \* not used
            /\ _threads_per_atom' = t_per_atom
            /\ _threads_per_charge' = t_per_atom
            /\ ret' = 0 /\ cause' = "none"
            /\ same_args' = /\ replica = comm.replica
                            /\ first_gpu = _first_device
                            /\ last_gpu = _last_device
                            /\ gpu_mode = _gpu_mode
                            /\ p_split = _particle_split
                            /\ <<nthreads, t_per_atom>> = bind_args
            /\ UNCHANGED <<life_vars, pppm_vars, _particle_split, _gpu_mode,
                           topo_vars, caps, bind_args, bound_ok, n_compile>>
       ELSE LET c == compile_kernels(
                       [flag |-> 0, compiled |-> _compiled,
                        dev_program |-> dev_program, caps |-> caps,
                        tpa |-> t_per_atom, tpc |-> t_per_atom],
                       mine, load_ok, data)
            IN /\ _device_init' = TRUE
               /\ comm' = [world |-> Ranks, replica |-> replica,
                           gpu |-> cgpu,
                           world_me |-> CommRank(Ranks, me),
                           world_size |-> Cardinality(Ranks),
                           replica_me |-> CommRank(replica, me),
                           replica_size |-> Cardinality(replica),
                           gpu_rank |-> CommRank(cgpu, me)]
               /\ _first_device' = first_gpu /\ _last_device' = last_gpu
               /\ _gpu_mode' = gpu_mode /\ _particle_split' = p_split
               /\ _procs_per_gpu' = ppg
               /\ _time_device' = time_device(ppg)
               /\ same_args' = FALSE
               /\ bind_args' = <<nthreads, t_per_atom>>
               /\ IF out_of_range(mine)
                  THEN /\ load_ok /\ data = CHOOSE d \in A.data : TRUE  \* not used
                       /\ gpu' = [obj |-> "live", dev |-> -1]
                       /\ ret' = -2 /\ cause' = "index"
                       /\ _threads_per_atom' = t_per_atom
                       /\ _threads_per_charge' = t_per_atom
                       /\ UNCHANGED <<_long_range_precompute, _compiled,
                                      dev_program, caps, n_compile>>
                  ELSE /\ gpu' = [obj |-> "live", dev |-> mine]
                       /\ _long_range_precompute' = 0
                       /\ _compiled' = c.compiled
                       /\ dev_program' = c.dev_program
                       /\ caps' = c.caps
                       /\ _threads_per_atom' = c.tpa
                       /\ _threads_per_charge' = c.tpc
                       /\ ret' = c.flag
                       /\ cause' = IF _compiled THEN "none"
                                   ELSE IF ~load_ok THEN "build"
                                   ELSE IF ~USE_OPENCL /\ data[1] > arch(mine)
                                   THEN "arch" ELSE "none"
                       /\ n_compile' = IF ~_compiled /\ c.compiled
                                       THEN n_compile + 1 ELSE n_compile
               /\ bound_ok' = (ret' = 0)
               /\ UNCHANGED <<_init_count, atom, _neighbor_shared,
                              _data_in_estimate, _data_out_estimate, pppm_vars>>
    /\ bal' = Restart /\ bal_any' = FALSE /\ run' = Restart /\ run_allocs' = 0
    /\ asked' = NoAsk
    /\ UNCHANGED <<env_vars, side_vars>>

\* the arguments of the lifecycle specification
LifeArgs == [replica |-> {Ranks}, range |-> { <<0, 0>>, <<1, 1>>, <<2, 2>> },
             gpu_mode |-> {"GPU_NEIGH"}, p_split |-> {50}, nthreads |-> {1},
             t_per_atom |-> {0}, data |-> {GoodData}]
\* the arguments of the binding specification
BindArgs == [replica |-> Replicas, range |-> GpuRanges, gpu_mode |-> {"GPU_FORCE"},
             p_split |-> {100}, nthreads |-> ThreadCounts,
             t_per_atom |-> ThreadsPerAtom, data |-> LibData]

InitDevice == InitDeviceOver(LifeArgs)

(***************************************************************************)
(* What the manager relies on from the classes it calls.                   *)
(***************************************************************************)
\* atom.init(nall,charge,rot,...): ok = its return value; held = whether storage
\* is held when it reports failure
AtomInit(charge, rot, ok, held) ==
  IF ok \/ held THEN [alloc |-> TRUE, charge |-> charge, quat |-> rot] ELSE NoAtom

\* atom.add_fields(charge,rot,...): extends the storage in place
AtomAddFields(a, charge, rot, ok, held) ==
  IF ok \/ held
  THEN [a EXCEPT !.charge = @ \/ charge, !.quat = @ \/ rot]
  ELSE a

\* atom.clear()
AtomClear(a) == NoAtom

\* nbor->init(&_neighbor_shared,...,gpu_nbor,...): the shared kernels are built
\* for device neighbor lists
NborInit(shared, gpu_nbor, ok, held) ==
  IF ok \/ held THEN shared \/ gpu_nbor ELSE shared

(***************************************************************************)
(* Device::init, both overloads (lines 136-214).                           *)
(* L: the fields the attach/detach calls touch, and ret.                   *)
(* out: "ok", or the call that reports failure.                            *)
(***************************************************************************)
B2N(b) == IF b THEN 1 ELSE 0

\* init that counts the client before ans.init and nbor->init are tried
init_attach_counts_early(L, gpu_nbor, charge, rot, out, held) ==
    LET first == L.init_count = 0
        L1 == [L EXCEPT !.data_in = 0, !.data_out = 1]
        L2 == IF first
              THEN [L1 EXCEPT !.atom = AtomInit(charge, rot, out # "atom", held)]
              ELSE [L1 EXCEPT
                      !.data_in = B2N(~L.atom.charge /\ charge)
                                  + B2N(~L.atom.quat /\ rot),
                      !.atom = AtomAddFields(L.atom, charge, rot, out # "atom", held)]
        L3 == IF first
              THEN [L2 EXCEPT !.data_in = 1 + B2N(charge) + B2N(rot),
                              !.init_count = @ + 1]
              ELSE [L2 EXCEPT !.init_count = @ + 1]
        L4 == [L3 EXCEPT !.neighbor_shared =
                           NborInit(@, gpu_nbor, out # "nbor", held)]
    IN IF out = "atom" THEN [L2 EXCEPT !.ret = -3]
       ELSE IF out = "ans" THEN [L3 EXCEPT !.ret = -3]
       ELSE IF out = "nbor" THEN [L4 EXCEPT !.ret = -3]
       ELSE [L4 EXCEPT !.ret = 0]

\* lines 148-190: the call once the two checks have passed
init_attach(L, gpu_nbor, charge, rot, out, held) ==
    LET first == L.init_count = 0
        L1 == [L EXCEPT !.data_in = 0, !.data_out = 1]
        L2 == IF first
              THEN [L1 EXCEPT !.atom = AtomInit(charge, rot, out # "atom", held)]
              ELSE [L1 EXCEPT
                      !.data_in = B2N(~L.atom.charge /\ charge)
                                  + B2N(~L.atom.quat /\ rot),
                      !.atom = AtomAddFields(L.atom, charge, rot, out # "atom", held)]
        L3 == IF first
              THEN [L2 EXCEPT !.data_in = 1 + B2N(charge) + B2N(rot)]
              ELSE L2
        L4 == [L3 EXCEPT !.neighbor_shared =
                           NborInit(@, gpu_nbor, out # "nbor", held)]
    IN IF out = "atom" THEN [L2 EXCEPT !.ret = -3]
       ELSE IF out = "ans" THEN [L3 EXCEPT !.ret = -3]
       ELSE IF out = "nbor" THEN [L4 EXCEPT !.ret = -3]
       ELSE [L4 EXCEPT !.init_count = @ + 1, !.ret = 0]

\* init with the transfer counts reset ahead of the precision check
init_resets_early(L, bound, lacks_double, gpu_nbor, charge, rot, out, held) ==
  IF ~bound THEN [L EXCEPT !.ret = -1]
  ELSE IF lacks_double
  THEN [L EXCEPT !.data_in = 0, !.data_out = 1, !.ret = -5]
  ELSE init_attach(L, gpu_nbor, charge, rot, out, held)

init(L, bound, lacks_double, gpu_nbor, charge, rot, out, held) ==
  IF ~bound THEN [L EXCEPT !.ret = -1]
  ELSE IF lacks_double THEN [L EXCEPT !.ret = -5]
  ELSE init_attach(L, gpu_nbor, charge, rot, out, held)

\* the long-range overload without the charge field
init_lr_no_charge(L, bound, lacks_double, out, held) ==
  IF ~bound THEN [L EXCEPT !.ret = -1]
  ELSE IF lacks_double THEN [L EXCEPT !.ret = -5]
  ELSE
    LET L2 == IF L.init_count = 0
              THEN [L EXCEPT !.atom = AtomInit(FALSE, FALSE, out # "atom", held)]
              ELSE [L EXCEPT !.atom = AtomAddFields(L.atom, FALSE, FALSE,
                                                    out # "atom", held)]
    IN IF out = "atom" THEN [L2 EXCEPT !.ret = -3]
       ELSE IF out = "ans" THEN [L2 EXCEPT !.ret = -3]
       ELSE [L2 EXCEPT !.init_count = @ + 1, !.ret = 0]

\* the long-range overload, init(ans,nlocal,nall)
init_lr(L, bound, lacks_double, out, held) ==
  IF ~bound THEN [L EXCEPT !.ret = -1]
  ELSE IF lacks_double THEN [L EXCEPT !.ret = -5]
  ELSE
    LET L2 == IF L.init_count = 0
              THEN [L EXCEPT !.atom = AtomInit(TRUE, FALSE, out # "atom", held)]
              ELSE [L EXCEPT !.atom = AtomAddFields(L.atom, TRUE, FALSE,
                                                    out # "atom", held)]
    IN IF out = "atom" THEN [L2 EXCEPT !.ret = -3]
       ELSE IF out = "ans" THEN [L2 EXCEPT !.ret = -3]
       ELSE [L2 EXCEPT !.init_count = @ + 1, !.ret = 0]

(***************************************************************************)
(* Device::clear and the loop of Device::clear_device (lines 501-522).     *)
(***************************************************************************)
\* clear that releases the storage and the module at every detach
clear_releases_early(L) ==
  IF L.init_count > 0
  THEN LET L2 == [L EXCEPT !.lrp = 0, !.init_count = @ - 1,
                           !.atom = AtomClear(@), !.neighbor_shared = FALSE]
       IN IF L2.compiled
          THEN [L2 EXCEPT !.dev_program = "deleted", !.compiled = FALSE]
          ELSE L2
  ELSE L

\* clear without the test of line 503
clear_unguarded(L) ==
  LET L1 == [L EXCEPT !.lrp = 0, !.init_count = @ - 1]
  IN IF L1.init_count = 0
     THEN LET L2 == [L1 EXCEPT !.atom = AtomClear(@),
                               !.neighbor_shared = FALSE]
          IN IF L2.compiled
             THEN [L2 EXCEPT !.dev_program = "deleted", !.compiled = FALSE]
             ELSE L2
     ELSE L1

\* clear without the release of the shared storage on the last detach
clear_keeps_storage(L) ==
  IF L.init_count > 0
  THEN LET L1 == [L EXCEPT !.lrp = 0, !.init_count = @ - 1]
       IN IF L1.init_count = 0 /\ L1.compiled
          THEN [L1 EXCEPT !.dev_program = "deleted", !.compiled = FALSE]
          ELSE L1
  ELSE L

clear(L) ==
  IF L.init_count > 0
  THEN LET L1 == [L EXCEPT !.lrp = 0, !.init_count = @ - 1]
       IN IF L1.init_count = 0
          THEN LET L2 == [L1 EXCEPT !.atom = AtomClear(@),
                                    !.neighbor_shared = FALSE]
               IN IF L2.compiled
                  THEN [L2 EXCEPT !.dev_program = "deleted", !.compiled = FALSE]
                  ELSE L2
          ELSE L1
  ELSE L

RECURSIVE clear_loop(_)
\* while (_init_count>0) clear();
clear_loop(L) == IF L.init_count > 0 THEN clear_loop(clear(L)) ELSE L

(***************************************************************************)
(* The calls as steps of the manager.                                      *)
(***************************************************************************)
Life == [init_count |-> _init_count, atom |-> atom,
         neighbor_shared |-> _neighbor_shared, data_in |-> _data_in_estimate,
         data_out |-> _data_out_estimate, lrp |-> _long_range_precompute,
         compiled |-> _compiled, dev_program |-> dev_program, ret |-> 0]

SetLife(L) ==
  /\ _init_count' = L.init_count
  /\ atom' = L.atom
  /\ _neighbor_shared' = L.neighbor_shared
  /\ _data_in_estimate' = L.data_in
  /\ _data_out_estimate' = L.data_out
  /\ _long_range_precompute' = L.lrp
  /\ _compiled' = L.compiled
  /\ dev_program' = L.dev_program

\* gpu->double_precision(): of the device gpu is set to; when init_device
\* returned -2 no device was set and the value read is arbitrary
LacksDouble(dp) ==
  /\ acc_double
  /\ ~(IF gpu.dev >= 0 THEN double_precision(gpu.dev) ELSE dp)

\* bookkeeping of the init/clear sequences after an init call that asked
\* for the fields charge and rot
AfterInit(L, charge, rot) ==
  /\ ret' = L.ret
  /\ IF L.ret = 0
     THEN /\ bal' = IF bal >= 0 THEN bal + 1 ELSE -1
          /\ bal_any' = (bal >= 0)
          /\ run' = IF run >= 0 THEN run + 1 ELSE -1
          /\ run_allocs' = IF run >= 0
                           THEN run_allocs + B2N(_init_count = 0)
                           ELSE 0
          /\ asked' = IF run >= 0
                      THEN [charge |-> asked.charge \/ charge,
                            quat |-> asked.quat \/ rot]
                      ELSE NoAsk
     ELSE /\ bal' = Restart /\ bal_any' = FALSE
          /\ run' = Restart /\ run_allocs' = 0
          /\ asked' = NoAsk
  /\ same_args' = FALSE
  /\ UNCHANGED <<bind_args, bound_ok, n_compile>>

\* a storage call is reached (lines 143-146 passed) and reports failure
Reported(out, dp) ==
  IF _device_init /\ ~LacksDouble(dp) /\ out # "ok" THEN "alloc" ELSE "none"

Outcome(out, held, dp) ==
  /\ (out \in {"ok", "ans"} => ~held)
  /\ (gpu.dev >= 0 => dp)

InitPair ==
  \E charge \in BOOLEAN, rot \in BOOLEAN, out \in {"ok", "atom", "ans", "nbor"},
     held \in BOOLEAN, dp \in BOOLEAN :
    /\ _init_count < MaxInit
    /\ Outcome(out, held, dp)
    /\ UNCHANGED <<env_vars, side_vars, pppm_vars, conf_vars, topo_vars, caps>>
    /\ LET L == init(Life, _device_init, LacksDouble(dp),
                     _gpu_mode = "GPU_NEIGH", charge, rot, out, held)
       IN SetLife(L) /\ AfterInit(L, charge, rot)
    /\ cause' = Reported(out, dp)
    /\ op' = "init"

InitLongRange ==
  \E out \in {"ok", "atom", "ans"}, held \in BOOLEAN, dp \in BOOLEAN :
    /\ _init_count < MaxInit
    /\ Outcome(out, held, dp)
    /\ UNCHANGED <<env_vars, side_vars, pppm_vars, conf_vars, topo_vars, caps>>
    /\ LET L == init_lr(Life, _device_init, LacksDouble(dp), out, held)
       IN SetLife(L) /\ AfterInit(L, TRUE, FALSE)
    /\ cause' = Reported(out, dp)
    /\ op' = "init_lr"

Clear ==
  /\ SetLife(clear(Life))
  /\ UNCHANGED <<env_vars, side_vars, pppm_vars, conf_vars, topo_vars, caps, bind_args,
                 bound_ok, n_compile>>
  /\ op' = "clear" /\ ret' = 0 /\ same_args' = FALSE /\ cause' = "none"
  /\ IF bal > 0
     THEN bal' = bal - 1 /\ bal_any' = bal_any
     ELSE bal' = Restart /\ bal_any' = FALSE
  /\ run' = Restart /\ run_allocs' = 0 /\ asked' = NoAsk

\* clear_device without the reset of _device_init (line 525)
ClearDevice_stays_bound ==
  /\ SetLife(clear_loop(Life))
  /\ IF _device_init
     THEN gpu' = [obj |-> "deleted", dev |-> -1] /\ _device_init' = TRUE
     ELSE UNCHANGED <<gpu, _device_init>>
  /\ op' = "clear_device" /\ ret' = 0 /\ same_args' = FALSE /\ cause' = "none"
  /\ n_compile' = 0 /\ bound_ok' = FALSE
  /\ bal' = -1 /\ bal_any' = FALSE /\ run' = -1 /\ run_allocs' = 0
  /\ asked' = NoAsk
  /\ UNCHANGED <<env_vars, side_vars, pppm_vars, conf_vars, _first_device, _last_device,
                 comm, _procs_per_gpu, _time_device, caps, bind_args>>

ClearDevice ==
  /\ SetLife(clear_loop(Life))
  /\ IF _device_init
     THEN gpu' = [obj |-> "deleted", dev |-> -1] /\ _device_init' = FALSE
     ELSE UNCHANGED <<gpu, _device_init>>
  /\ op' = "clear_device" /\ ret' = 0 /\ same_args' = FALSE /\ cause' = "none"
  /\ n_compile' = 0 /\ bound_ok' = FALSE
  /\ bal' = -1 /\ bal_any' = FALSE /\ run' = -1 /\ run_allocs' = 0
  /\ asked' = NoAsk
  /\ UNCHANGED <<env_vars, side_vars, pppm_vars, conf_vars, _first_device, _last_device,
                 comm, _procs_per_gpu, _time_device, caps, bind_args>>

\* set_single_precompute / set_double_precompute (lines 216-228)
\* set_single_precompute that keeps a handle already registered
SetSinglePrecomputeOver_first_wins(H) ==
  \E pppm \in H :
    /\ _long_range_precompute' = 1
    /\ pppm_single' = IF pppm_single = 0 THEN pppm ELSE pppm_single
    /\ op' = "set_single_precompute" /\ ret' = 0 /\ cause' = "none"
    /\ reg' = [kind |-> 1, handle |-> pppm]
    /\ UNCHANGED <<env_vars, lanes, mpi, est, more_vars, _init_count, atom, _neighbor_shared,
                   _data_in_estimate, _data_out_estimate, _compiled, dev_program,
                   pppm_double, conf_vars, topo_vars, caps, same_args, bind_args,
                   bound_ok, n_compile, bal, bal_any, run, run_allocs, asked>>

\* H: the handles the argument is drawn from
SetSinglePrecomputeOver(H) ==
  \E pppm \in H :
    /\ _long_range_precompute' = 1
    /\ pppm_single' = pppm
    /\ op' = "set_single_precompute" /\ ret' = 0 /\ cause' = "none"
    /\ reg' = [kind |-> 1, handle |-> pppm]
    /\ UNCHANGED <<env_vars, lanes, mpi, est, more_vars, _init_count, atom, _neighbor_shared,
                   _data_in_estimate, _data_out_estimate, _compiled, dev_program,
                   pppm_double, conf_vars, topo_vars, caps, same_args, bind_args,
                   bound_ok, n_compile, bal, bal_any, run, run_allocs, asked>>

SetDoublePrecomputeOver(H) ==
  \E pppm \in H :
    /\ _long_range_precompute' = 2
    /\ pppm_double' = pppm
    /\ op' = "set_double_precompute" /\ ret' = 0 /\ cause' = "none"
    /\ reg' = [kind |-> 2, handle |-> pppm]
    /\ UNCHANGED <<env_vars, lanes, mpi, est, more_vars, _init_count, atom, _neighbor_shared,
                   _data_in_estimate, _data_out_estimate, _compiled, dev_program,
                   pppm_single, conf_vars, topo_vars, caps, same_args, bind_args,
                   bound_ok, n_compile, bal, bal_any, run, run_allocs, asked>>

SetSinglePrecompute == SetSinglePrecomputeOver(PPPMHandles)

SetDoublePrecompute == SetDoublePrecomputeOver(PPPMHandles)

Next ==
  \/ InitDevice
  \/ InitPair
  \/ InitLongRange
  \/ Clear
  \/ ClearDevice

\* the lifecycle of the manager of a single-process run
Init == InitOver({ <<1>> }, BOOLEAN)

Spec == Init /\ [][Next]_vars

\* the manager and its precompute clients, within one binding
NextClients ==
  \/ InitDevice
  \/ InitPair
  \/ InitLongRange
  \/ Clear
  \/ SetSinglePrecompute
  \/ SetDoublePrecompute

SpecClients == Init /\ [][NextClients]_vars

\* the registrations of several long-range clients, with the calls that
\* reset the selector
ManyHandles == {1, 2}

SetSingleMany == SetSinglePrecomputeOver(ManyHandles)

SetDoubleMany == SetDoublePrecomputeOver(ManyHandles)

InitRegister == InitOver({ <<1>> }, {FALSE})

NextRegister ==
  \/ InitDevice
  \/ InitLongRange
  \/ Clear
  \/ SetSingleMany
  \/ SetDoubleMany

SpecRegister == InitRegister /\ [][NextRegister]_vars

\* binding and unbinding with every argument, in every world
InitDeviceBind == InitDeviceOver(BindArgs)

InitBind == InitOver(Worlds, {FALSE})

NextBind ==
  \/ InitDeviceBind
  \/ ClearDevice

SpecBind == InitBind /\ [][NextBind]_vars

\* the lifecycle with every outcome of compile_kernels
CodeArgs == [LifeArgs EXCEPT !.data = LibData]

InitDeviceCodes == InitDeviceOver(CodeArgs)

NextCodes ==
  \/ InitDeviceCodes
  \/ InitPair
  \/ InitLongRange
  \/ Clear
  \/ ClearDevice

SpecCodes == Init /\ [][NextCodes]_vars

\* the lane resolution of compile_kernels for every request, default and
\* warp size
InitLanes ==
  /\ names = <<1>> /\ me = 0 /\ acc_double = FALSE
  /\ Constructed
  /\ lanes \in [requested : -1 .. (MaxWarp + 2), default : 1 .. (MaxWarp + 1),
                 warp_size : 1 .. MaxWarp, resolved : {0}]
  /\ mpi = NoWorld
  /\ est = NoEst
  /\ reg = NoReg
  /\ NoMore

ResolveLanes ==
  /\ lanes.resolved = 0
  /\ lanes' = [lanes EXCEPT
                 !.resolved = Lanes(lanes.requested, lanes.default,
                                    lanes.warp_size)]
  /\ UNCHANGED <<env_vars, mgr_vars, obs_vars, mpi, est, reg, more_vars>>

NextLanes == ResolveLanes

SpecLanes == InitLanes /\ [][NextLanes]_vars

(***************************************************************************)
(* init_device in every process of the world communicator (lines 44-134).  *)
(* Each process has its own manager; what they share are the collectives   *)
(* of lines 78, 105 and 120, numbered 1, 2, 3 within a call.  A process's   *)
(* at is the number of collectives it has entered since it started.        *)
(***************************************************************************)
WorldsMPI == {w \in Worlds : Len(w) \in 2 .. 3}
RangesMPI == { <<0, 1>>, <<1, 1>> }

\* calls: init_device calls begun; in_call: inside one, in collective at;
\* ok: the manager was bound by a call that returned 0; was_ok: ok when the
\* last call began; skipped: the last call returned at line 57; prev: what
\* the first binding call computed
NoProc == [calls |-> 0, at |-> 0, in_call |-> FALSE, _device_init |-> FALSE,
           ok |-> FALSE, was_ok |-> FALSE, skipped |-> FALSE, ret |-> 0,
           ppn |-> 0, ppg |-> 0, dev |-> -1, cgpu |-> {}, prev |-> <<>>]

InitWorld ==
  /\ names \in WorldsMPI /\ me = 0 /\ acc_double = FALSE
  /\ Constructed
  /\ lanes = NoLanes
  /\ est = NoEst
  /\ reg = NoReg
  /\ NoMore
  /\ \E range \in RangesMPI :
       mpi = [range |-> range, proc |-> [r \in RanksOf(names) |-> NoProc]]

\* which collective of its call a process is in: 1 MPI_Allgather (line 78),
\* 2 MPI_Comm_split of the world (line 105), 3 MPI_Comm_split of the node
\* communicator (line 120)
Collective(at) == ((at - 1) % 3) + 1

\* the collectives on the process's own communicator (MPI_COMM_SELF)
CommSelf(r, at) == {r}

\* the communicator of the collective: _comm_world, _comm_world, node_comm
Comm(r, at) == IF Collective(at) = 3 THEN node_comm(names, r) ELSE Ranks

\* a collective returns once every process of its communicator has entered it
Entered(r) ==
  \A q \in Comm(r, mpi.proc[r].at) : mpi.proc[q].at >= mpi.proc[r].at

\* lines 49-65: the call up to the first collective
WInitDevice(r) ==
  LET P == mpi.proc[r]
  IN /\ ~P.in_call /\ P.calls < MaxCalls
     /\ mpi' = [mpi EXCEPT !.proc[r] =
                  IF P._device_init
                  THEN [P EXCEPT !.calls = @ + 1, !.was_ok = P.ok,
                                 !.skipped = TRUE, !.ret = 0]
                  ELSE [P EXCEPT !.calls = @ + 1, !.was_ok = P.ok,
                                 !.skipped = FALSE, !._device_init = TRUE,
                                 !.at = @ + 1, !.in_call = TRUE]]
     /\ UNCHANGED <<env_vars, mgr_vars, obs_vars, lanes, est, reg, more_vars>>

\* lines 78-133: a collective returns and the call runs on to the next one,
\* or to its return
WCollective(r) ==
  LET P == mpi.proc[r]
      T == Topology[names][r][mpi.range]
  IN /\ P.in_call /\ Entered(r)
     /\ \E built \in BOOLEAN :
          mpi' = [mpi EXCEPT !.proc[r] =
            IF Collective(P.at) = 1
            THEN [P EXCEPT !.ppn = procs_per_node(names), !.at = @ + 1]
            ELSE IF Collective(P.at) = 2
            THEN [P EXCEPT !.ppg = T.procs_per_gpu, !.dev = T.my_gpu,
                           !.at = @ + 1]
            ELSE LET flag == IF out_of_range(P.dev) THEN -2
                             ELSE IF built THEN 0 ELSE -4
                     now == <<P.ppn, P.ppg, P.dev, T.comm_gpu>>
                 IN [P EXCEPT !.cgpu = T.comm_gpu, !.in_call = FALSE,
                              !.ret = flag, !.ok = (flag = 0),
                              !.prev = IF P.prev = <<>> THEN now ELSE @]]
     /\ UNCHANGED <<env_vars, mgr_vars, obs_vars, lanes, est, reg, more_vars>>

\* lines 519-527 in one process
WClearDevice(r) ==
  LET P == mpi.proc[r]
  IN /\ ~P.in_call /\ P._device_init /\ P.calls < MaxCalls
     /\ mpi' = [mpi EXCEPT !.proc[r] =
                  [P EXCEPT !._device_init = FALSE, !.ok = FALSE]]
     /\ UNCHANGED <<env_vars, mgr_vars, obs_vars, lanes, est, reg, more_vars>>

NextWorld ==
  \E r \in Ranks :
    \/ WInitDevice(r)
    \/ WCollective(r)
    \/ WClearDevice(r)

SpecWorld == InitWorld /\ [][NextWorld]_vars

(***************************************************************************)
(* Device::estimate_gpu_overhead (lines 273-383), one action per statement *)
(* of the trial loop.  The processes of the per-device communicator run    *)
(* the trials together: time[p] and driver_time[p] are what process p of   *)
(* comm.gpu measures in the current trial.  Times are in tenths of a unit, *)
(* so that the division of line 364 is exact.                              *)
(***************************************************************************)
\* the loop of line 319
NumTrials == 10
\* the divisor of lines 364-365
MeanDivisor == 10

\* the largest element of a set of numbers
SetMax(S) == CHOOSE x \in S : \A y \in S : y <= x

\* MPI_Allreduce that hands each process its own contribution back
Allreduce_own(v) == v

\* MPI_Allreduce(...,MPI_MAX,gpu_comm()) (lines 359-360): every process of
\* the communicator receives the maximum of the contributions
Allreduce_MAX(v) ==
  [p \in DOMAIN v |-> SetMax({v[q] : q \in DOMAIN v})]

\* the loops of lines 327-343 with the inbound loop left out
AfterClock_no_inbound(e) ==
  IF e.kernel_calls > 0 THEN "zero"
  ELSE IF e.n_out > 0 THEN "out" ELSE "timer_stop"

\* where the trial continues after line 326, after the inbound loop (line
\* 331) and after the kernel loop (line 337): the next loop that has an
\* iteration, or line 344
AfterClock(e) ==
  IF e.n_in > 0 THEN "in"
  ELSE IF e.kernel_calls > 0 THEN "zero"
  ELSE IF e.n_out > 0 THEN "out" ELSE "timer_stop"

AfterIn(e) ==
  IF e.kernel_calls > 0 THEN "zero"
  ELSE IF e.n_out > 0 THEN "out" ELSE "timer_stop"

AfterZero(e) == IF e.n_out > 0 THEN "out" ELSE "timer_stop"

\* no call of estimate_gpu_overhead is in progress
Quiet == est.pc \in {"idle", "done"}

EstFrame ==
  UNCHANGED <<env_vars, mgr_vars, obs_vars, lanes, mpi, reg, more_vars>>

\* lines 277-317: the call is made on a manager whose device is usable
EstBegin(K) ==
  \E kernel_calls \in K :
    /\ Quiet
    /\ _device_init /\ gpu.obj = "live" /\ gpu.dev >= 0
    /\ est' = [NoEst EXCEPT
                 !.pc = "sync1",
                 !.n_in = _data_in_estimate, !.n_out = _data_out_estimate,
                 !.kernel_calls = kernel_calls,
                 !.gpu_overhead = [p \in comm.gpu |-> 0],
                 !.gpu_driver_overhead = [p \in comm.gpu |-> 0]]
    /\ EstFrame

\* lines 320 and 323: gpu->sync()
EstSync ==
  /\ est.pc \in {"sync1", "sync2"}
  /\ est' = [est EXCEPT
               !.pc = IF est.pc = "sync1" THEN "barrier1" ELSE "barrier2",
               !.log = IF est.pc = "sync1" THEN << <<"sync", 0>> >>
                       ELSE Append(@, <<"sync", 0>>)]
  /\ EstFrame

\* lines 321 and 324: gpu_barrier()
EstBarrier ==
  /\ est.pc \in {"barrier1", "barrier2"}
  /\ est' = [est EXCEPT
               !.pc = IF est.pc = "barrier1" THEN "timer_start"
                      ELSE "clock_start",
               !.log = Append(@, <<"barrier", 0>>)]
  /\ EstFrame

\* line 322: over_timer.start()
EstTimerStart ==
  /\ est.pc = "timer_start"
  /\ est' = [est EXCEPT !.pc = "sync2",
                        !.log = Append(@, <<"timer_start", 0>>)]
  /\ EstFrame

\* line 326: driver_time=MPI_Wtime()
EstClockStart ==
  /\ est.pc = "clock_start"
  /\ est' = [est EXCEPT !.pc = AfterClock(est), !.i = 0,
                        !.log = Append(@, <<"clock_start", 0>>)]
  /\ EstFrame

\* lines 327-331: one inbound copy
EstCopyIn ==
  /\ est.pc = "in"
  /\ est' = [est EXCEPT
               !.log = Append(@, <<"in", est.i>>),
               !.i = IF est.i + 1 < est.n_in THEN est.i + 1 ELSE 0,
               !.pc = IF est.i + 1 < est.n_in THEN "in" ELSE AfterIn(est)]
  /\ EstFrame

\* lines 333-337: one launch of the zeroing kernel
EstZero ==
  /\ est.pc = "zero"
  /\ est' = [est EXCEPT
               !.log = Append(@, <<"zero", est.i>>),
               !.i = IF est.i + 1 < est.kernel_calls THEN est.i + 1 ELSE 0,
               !.pc = IF est.i + 1 < est.kernel_calls THEN "zero"
                      ELSE AfterZero(est)]
  /\ EstFrame

\* lines 339-343: one outbound copy
EstCopyOut ==
  /\ est.pc = "out"
  /\ est' = [est EXCEPT
               !.log = Append(@, <<"out", est.i>>),
               !.i = IF est.i + 1 < est.n_out THEN est.i + 1 ELSE 0,
               !.pc = IF est.i + 1 < est.n_out THEN "out" ELSE "timer_stop"]
  /\ EstFrame

\* lines 344-346: over_timer.stop() and time=over_timer.seconds(), in every
\* process of the communicator; T: the times a process may measure
EstTimerStop(T) ==
  \E time \in [comm.gpu -> T] :
    /\ est.pc = "timer_stop"
    /\ est' = [est EXCEPT
                 !.pc = "clock_stop",
                 !.log = Append(@, <<"timer_stop", 0>>),
                 !.time = time,
                 !.sum_max = @ + SetMax({time[p] : p \in comm.gpu})]
    /\ EstFrame

\* lines 347-356: driver_time=MPI_Wtime()-driver_time, and the totals of the
\* per-transfer timers when the device is timed
EstClockStop(T) ==
  \E driver_time \in [comm.gpu -> T] :
    /\ est.pc = "clock_stop"
    /\ est' = [est EXCEPT
                 !.pc = "reduce_time",
                 !.log = Append(@, <<"clock_stop", 0>>),
                 !.driver_time = driver_time,
                 !.sum_driver_max =
                    @ + SetMax({driver_time[p] : p \in comm.gpu}),
                 !.totals = IF _time_device THEN @ + 1 ELSE @]
    /\ EstFrame

\* line 359
EstReduceTime ==
  /\ est.pc = "reduce_time"
  /\ est' = [est EXCEPT !.pc = "reduce_driver",
                        !.log = Append(@, <<"reduce_time", 0>>),
                        !.mpi_time = Allreduce_MAX(est.time)]
  /\ EstFrame

\* line 360
EstReduceDriver ==
  /\ est.pc = "reduce_driver"
  /\ est' = [est EXCEPT !.pc = "accumulate",
                        !.log = Append(@, <<"reduce_driver", 0>>),
                        !.mpi_driver_time = Allreduce_MAX(est.driver_time)]
  /\ EstFrame

\* lines 361-362 and the end of the iteration (line 319)
EstAccumulate ==
  /\ est.pc = "accumulate"
  /\ est' = [est EXCEPT
               !.gpu_overhead =
                  [p \in comm.gpu |-> @[p] + est.mpi_time[p]],
               !.gpu_driver_overhead =
                  [p \in comm.gpu |-> @[p] + est.mpi_driver_time[p]],
               !.time = <<>>, !.driver_time = <<>>,
               !.mpi_time = <<>>, !.mpi_driver_time = <<>>,
               !.trial = @ + 1,
               !.pc = IF est.trial + 1 < NumTrials THEN "sync1"
                      ELSE "average"]
  /\ EstFrame

\* lines 364-382
EstAverage ==
  /\ est.pc = "average"
  /\ est' = [est EXCEPT
               !.gpu_overhead = [p \in comm.gpu |-> @[p] \div MeanDivisor],
               !.gpu_driver_overhead =
                  [p \in comm.gpu |-> @[p] \div MeanDivisor],
               !.pc = "done"]
  /\ EstFrame

\* the manager's other calls are made between two calls of
\* estimate_gpu_overhead
EstArgs == [LifeArgs EXCEPT !.range = { <<0, 0>> }]
EstInitDevice == Quiet /\ InitDeviceOver(EstArgs)
EstInitPair == Quiet /\ InitPair

\* the kernel_calls arguments and the measured times of the two
\* specifications
KernelCalls == 0 .. 2
OneTime == {10}
Times == {10, 20}

\* the trials of a single process, statement by statement
InitEstimate == InitOver({ <<1>> }, {FALSE})

NextEstimate ==
  \/ EstInitDevice
  \/ EstInitPair
  \/ EstBegin(KernelCalls)
  \/ EstSync
  \/ EstBarrier
  \/ EstTimerStart
  \/ EstClockStart
  \/ EstCopyIn
  \/ EstZero
  \/ EstCopyOut
  \/ EstTimerStop(OneTime)
  \/ EstClockStop(OneTime)
  \/ EstReduceTime
  \/ EstReduceDriver
  \/ EstAccumulate
  \/ EstAverage

SpecEstimate == InitEstimate /\ [][NextEstimate]_vars

\* the reductions of two processes that share a device
InitReduce == InitOver({ <<1, 1>> }, {FALSE})

NextReduce ==
  \/ EstInitDevice
  \/ EstBegin({1})
  \/ EstSync
  \/ EstBarrier
  \/ EstTimerStart
  \/ EstClockStart
  \/ EstZero
  \/ EstTimerStop(Times)
  \/ EstClockStop(Times)
  \/ EstReduceTime
  \/ EstReduceDriver
  \/ EstAccumulate
  \/ EstAverage

SpecReduce == InitReduce /\ [][NextReduce]_vars

(***************************************************************************)
(* estimate_gpu_overhead called in every process of a per-device           *)
(* communicator, each with its own kernel_calls, transfer counts and       *)
(* time_device flag.  e: a process's position (pc, trial, i) and           *)
(* arguments; at: the collectives on gpu_comm() it has entered; last: the  *)
(* kind of the latest one; waiting: it is inside that collective.          *)
(***************************************************************************)
GroupProcs == {0, 1}
GroupCounts == {0, 2}

\* gpu_barrier() made only by a process that launches kernels
IsBarrier_with_kernels(e) ==
  e.pc \in {"barrier1", "barrier2"} /\ e.kernel_calls > 0

\* lines 321 and 324: gpu_barrier()
IsBarrier(e) == e.pc \in {"barrier1", "barrier2"}

\* lines 359 and 360: MPI_Allreduce over gpu_comm()
IsReduce(e) == e.pc \in {"reduce_time", "reduce_driver"}

\* the statement after the one the process is at (lines 319-365)
GAfter(e) ==
  IF e.pc = "sync1" THEN [e EXCEPT !.pc = "barrier1"]
  ELSE IF e.pc = "barrier1" THEN [e EXCEPT !.pc = "timer_start"]
  ELSE IF e.pc = "timer_start" THEN [e EXCEPT !.pc = "sync2"]
  ELSE IF e.pc = "sync2" THEN [e EXCEPT !.pc = "barrier2"]
  ELSE IF e.pc = "barrier2" THEN [e EXCEPT !.pc = "clock_start"]
  ELSE IF e.pc = "clock_start" THEN [e EXCEPT !.pc = AfterClock(e), !.i = 0]
  ELSE IF e.pc = "in"
  THEN IF e.i + 1 < e.n_in THEN [e EXCEPT !.i = @ + 1]
       ELSE [e EXCEPT !.pc = AfterIn(e), !.i = 0]
  ELSE IF e.pc = "zero"
  THEN IF e.i + 1 < e.kernel_calls THEN [e EXCEPT !.i = @ + 1]
       ELSE [e EXCEPT !.pc = AfterZero(e), !.i = 0]
  ELSE IF e.pc = "out"
  THEN IF e.i + 1 < e.n_out THEN [e EXCEPT !.i = @ + 1]
       ELSE [e EXCEPT !.pc = "timer_stop", !.i = 0]
  ELSE IF e.pc = "timer_stop" THEN [e EXCEPT !.pc = "clock_stop"]
  ELSE IF e.pc = "clock_stop"
  THEN [e EXCEPT !.pc = "reduce_time",
                 !.totals = IF e.time_device THEN @ + 1 ELSE @]
  ELSE IF e.pc = "reduce_time" THEN [e EXCEPT !.pc = "reduce_driver"]
  ELSE IF e.pc = "reduce_driver" THEN [e EXCEPT !.pc = "accumulate"]
  ELSE IF e.pc = "accumulate"
  THEN [e EXCEPT !.trial = @ + 1,
                 !.pc = IF e.trial + 1 < NumTrials THEN "sync1" ELSE "average"]
  ELSE [e EXCEPT !.pc = "done"]

GroupFrame ==
  UNCHANGED <<env_vars, mgr_vars, obs_vars, lanes, mpi, est, reg, diag, pair>>

\* a statement that is no collective
GLocal(p) ==
  LET e == grp[p]
  IN /\ e.pc # "done" /\ ~IsBarrier(e) /\ ~IsReduce(e)
     /\ grp' = [grp EXCEPT ![p] = GAfter(e)]
     /\ GroupFrame

\* the process calls gpu_barrier() or MPI_Allreduce
GEnter(p) ==
  LET e == grp[p]
  IN /\ (IsBarrier(e) \/ IsReduce(e)) /\ ~e.waiting
     /\ grp' = [grp EXCEPT ![p] =
                  [e EXCEPT !.waiting = TRUE, !.at = @ + 1,
                            !.last = IF IsBarrier(e) THEN "barrier" ELSE "reduce",
                            !.barriers = IF IsBarrier(e) THEN @ + 1 ELSE @,
                            !.reduces = IF IsReduce(e) THEN @ + 1 ELSE @]]
     /\ GroupFrame

\* the collective returns once every process of the communicator is in it
GLeave(p) ==
  LET e == grp[p]
  IN /\ e.waiting
     /\ \A q \in GroupProcs : grp[q].at >= e.at
     /\ grp' = [grp EXCEPT ![p] = [GAfter(e) EXCEPT !.waiting = FALSE]]
     /\ GroupFrame

\* lines 277-317 have run in every process
InitGroup ==
  /\ names = <<1, 1>> /\ me = 0 /\ acc_double = FALSE
  /\ Constructed
  /\ lanes = NoLanes /\ mpi = NoWorld /\ est = NoEst /\ reg = NoReg
  /\ diag = NoOut /\ pair = NewPair
  /\ grp \in [GroupProcs ->
               [pc : {"sync1"}, trial : {0}, i : {0}, totals : {0},
                kernel_calls : GroupCounts, n_in : GroupCounts, n_out : {1},
                time_device : BOOLEAN, at : {0}, last : {"none"},
                waiting : {FALSE}, barriers : {0}, reduces : {0}]]

NextGroup ==
  \E p \in GroupProcs :
    \/ GLocal(p)
    \/ GEnter(p)
    \/ GLeave(p)

SpecGroup == InitGroup /\ [][NextGroup]_vars

(***************************************************************************)
(* Device::output_times and Device::output_kspace_times (lines 385-499).   *)
(* screen: the FILE* is not null; positive: the total tested at lines 411  *)
(* and 467 is > 0 in the buffer the reduction filled.                      *)
(***************************************************************************)
\* MPI_Reduce(sendbuf,recvbuf,count,MPI_DOUBLE,op,root,_comm_replica)
MPI_Reduce(count, mpi_op, root) ==
  [count |-> count, op |-> mpi_op, root |-> root, comm |-> comm.replica]

\* output_times with the test of line 410 left out
output_times_any_rank(screen, positive) ==
  LET printed == screen /\ positive
  IN [reduces |-> << MPI_Reduce(8, "MPI_SUM", 0), MPI_Reduce(1, "MPI_MAX", 0) >>,
      printed |-> printed,
      categories |-> printed /\ _time_device]

\* lines 396-438
output_times(screen, positive) ==
  LET printed == comm.replica_me = 0 /\ screen /\ positive
  IN [reduces |-> << MPI_Reduce(8, "MPI_SUM", 0), MPI_Reduce(1, "MPI_MAX", 0) >>,
      printed |-> printed,
      categories |-> printed /\ _time_device]

\* lines 454-498
output_kspace_times(screen, positive) ==
  LET printed == comm.replica_me = 0 /\ screen /\ positive
  IN [reduces |-> << MPI_Reduce(8, "MPI_SUM", 0), MPI_Reduce(1, "MPI_MAX", 0) >>,
      printed |-> printed,
      categories |-> printed /\ _time_device]

OutFrame ==
  UNCHANGED <<env_vars, mgr_vars, lanes, mpi, est, reg, grp, pair, same_args,
              bind_args, bound_ok, n_compile, bal, bal_any, run, run_allocs,
              asked>>

\* the calls are made on a manager whose communicators are set
OutputTimes ==
  \E screen \in BOOLEAN, positive \in BOOLEAN :
    /\ _device_init
    /\ diag' = output_times(screen, positive)
    /\ op' = "output_times" /\ ret' = 0 /\ cause' = "none"
    /\ OutFrame

OutputKspaceTimes ==
  \E screen \in BOOLEAN, positive \in BOOLEAN :
    /\ _device_init
    /\ diag' = output_kspace_times(screen, positive)
    /\ op' = "output_kspace_times" /\ ret' = 0 /\ cause' = "none"
    /\ OutFrame

\* the diagnostics of every process of every world
OutArgs == [BindArgs EXCEPT !.range = { <<0, 0>>, <<0, 1>> }, !.nthreads = {1},
                            !.t_per_atom = {0}, !.data = {GoodData}]

InitDeviceOut == InitDeviceOver(OutArgs)

NextOutput ==
  \/ InitDeviceOut
  \/ ClearDevice
  \/ OutputTimes
  \/ OutputKspaceTimes

SpecOutput == InitBind /\ [][NextOutput]_vars

(***************************************************************************)
(* PairLJCutCoulLongOMP (src/USER-OPENMP/pair_lj_cut_coul_long_omp.cpp):   *)
(* settings, coeff, init_style and init_list.  error->all ends the run:    *)
(* once pair.error is set no further call is made.                         *)
(***************************************************************************)
\* atom->ntypes
NTypes == 2
\* the cutoffs given on the command lines
Cuts == {1, 2}
\* the list pointers the neighbor class delivers
ListPtrs == {1, 2}

\* the entries [i][j], i <= j, of the per-type-pair arrays
TypePairs == {ij \in (1 .. NTypes) \X (1 .. NTypes) : ij[1] <= ij[2]}

PairFrame ==
  UNCHANGED <<env_vars, mgr_vars, obs_vars, lanes, mpi, est, reg, diag, grp>>

\* lines 749-754: i from 1 to ntypes, j from i+1 to ntypes
reset_cutoffs(P, cut) ==
  IF P.allocated
  THEN [ij \in TypePairs |->
          IF ij[2] >= ij[1] + 1 /\ P.setflag[ij] THEN cut ELSE P.cut_lj[ij]]
  ELSE P.cut_lj

\* lines 739-755; arg0, arg1: force->numeric of the arguments present
PairSettings ==
  \E narg \in 0 .. 3, arg0 \in Cuts, arg1 \in Cuts :
    /\ ~pair.error
    /\ pair' =
         IF narg < 1 \/ narg > 2
         THEN [pair EXCEPT !.op = "settings", !.error = TRUE,
                           !.args = <<narg>>]
         ELSE [pair EXCEPT !.op = "settings", !.args = <<narg>>,
                           !.cut_lj_global = arg0,
                           !.cut_coul = IF narg = 1 THEN arg0 ELSE arg1,
                           !.cut_lj = reset_cutoffs(pair, arg0)]
    /\ PairFrame

\* lines 712-731: setflag is cleared for i <= j; the other arrays are left
\* as memory->create_2d_double_array returns them
allocate(P, fresh) ==
  [P EXCEPT !.allocated = TRUE,
            !.setflag = [ij \in TypePairs |-> FALSE],
            !.cut_lj = fresh]

\* lines 761-788; ilo..ihi and jlo..jhi: what force->bounds returns for
\* arg[0] and arg[1]; the pair_style command has called settings before
PairCoeff ==
  \E narg \in 3 .. 6, ilo \in 1 .. NTypes, ihi \in 1 .. NTypes,
     jlo \in 1 .. NTypes, jhi \in 1 .. NTypes, arg4 \in Cuts,
     fresh \in (IF pair.allocated THEN {pair.cut_lj}     \* not used
                ELSE [TypePairs -> Cuts]) :
    /\ ~pair.error /\ pair.op # "new"
    /\ pair' =
         IF narg < 4 \/ narg > 5
         THEN [pair EXCEPT !.op = "coeff", !.error = TRUE, !.args = <<narg>>]
         ELSE
           LET P == IF pair.allocated THEN pair ELSE allocate(pair, fresh)
               cut_lj_one == IF narg = 5 THEN arg4 ELSE P.cut_lj_global
               hit == {ij \in TypePairs :
                         /\ ij[1] \in ilo .. ihi
                         /\ ij[2] \in (IF jlo > ij[1] THEN jlo ELSE ij[1]) .. jhi}
           IN [P EXCEPT !.op = "coeff",
                        !.args = <<narg>>,
                        !.cut_lj = [ij \in TypePairs |->
                                      IF ij \in hit THEN cut_lj_one ELSE @[ij]],
                        !.setflag = [ij \in TypePairs |-> @[ij] \/ ij \in hit],
                        !.error = (hit = {})]
    /\ PairFrame

\* neighbor->request(this): a new request with the defaults of NeighRequest
NeighRequest == [id |-> 0, half |-> 1, respainner |-> 0, respamiddle |-> 0,
                 respaouter |-> 0]

\* the requests of init_style with a middle level counted only above an
\* inner level
requests_of_needs_inner(respa_run, level_inner, level_middle) ==
  LET respa == IF level_inner >= 0 /\ level_middle >= 0 THEN 2
               ELSE IF level_inner >= 0 THEN 1 ELSE 0
      inner == [NeighRequest EXCEPT !.id = 1, !.half = 0, !.respainner = 1]
      middle == [NeighRequest EXCEPT !.id = 2, !.half = 0, !.respamiddle = 1]
      outer == [NeighRequest EXCEPT !.id = 3, !.half = 0, !.respaouter = 1]
  IN IF ~respa_run \/ respa = 0 THEN << NeighRequest >>
     ELSE IF respa = 1 THEN << inner, outer >>
     ELSE << inner, middle, outer >>

\* lines 805-833; respa_run: update->whichflag == 1 and integrate_style is
\* "respa"
requests_of(respa_run, level_inner, level_middle) ==
  LET respa == IF level_middle >= 0 THEN 2
               ELSE IF level_inner >= 0 THEN 1 ELSE 0
      inner == [NeighRequest EXCEPT !.id = 1, !.half = 0, !.respainner = 1]
      middle == [NeighRequest EXCEPT !.id = 2, !.half = 0, !.respamiddle = 1]
      outer == [NeighRequest EXCEPT !.id = 3, !.half = 0, !.respaouter = 1]
  IN IF ~respa_run \/ respa = 0 THEN << NeighRequest >>
     ELSE IF respa = 1 THEN << inner, outer >>
     ELSE << inner, middle, outer >>

\* lines 794-853; the levels are those of the Respa integrator, -1 when the
\* integrator has no such level (or is not Respa)
PairInitStyle ==
  \E q_flag \in BOOLEAN, whichflag \in {1, 2}, style \in {"verlet", "respa"},
     level_inner \in {-1, 0}, level_middle \in {-1, 1}, kspace \in BOOLEAN :
    /\ ~pair.error
    /\ style = "verlet" => (level_inner = -1 /\ level_middle = -1)
    /\ pair' =
         IF ~q_flag
         THEN [pair EXCEPT !.op = "init_style", !.error = TRUE,
                           !.args = <<q_flag>>, !.requests = <<>>]
         ELSE [pair EXCEPT
                 !.op = "init_style",
                 !.args = <<q_flag, whichflag = 1 /\ style = "respa",
                            level_inner, level_middle>>,
                 !.requests = requests_of(whichflag = 1 /\ style = "respa",
                                          level_inner, level_middle),
                 !.cut_coulsq = pair.cut_coul * pair.cut_coul,
                 !.cut_respa = (style = "respa" /\ level_inner >= 0),
                 !.error = ~kspace]
    /\ PairFrame

\* init_list that takes every other id for the default list
init_list_default(P, id, ptr) ==
  IF id = 1 THEN [P EXCEPT !.listinner = ptr]
  ELSE IF id = 2 THEN [P EXCEPT !.listmiddle = ptr]
  ELSE IF id = 3 THEN [P EXCEPT !.listouter = ptr]
  ELSE [P EXCEPT !.list = ptr]

\* lines 860-866
init_list(P, id, ptr) ==
  IF id = 0 THEN [P EXCEPT !.list = ptr]
  ELSE IF id = 1 THEN [P EXCEPT !.listinner = ptr]
  ELSE IF id = 2 THEN [P EXCEPT !.listmiddle = ptr]
  ELSE IF id = 3 THEN [P EXCEPT !.listouter = ptr]
  ELSE P

PairInitList ==
  \E id \in -1 .. 4, ptr \in ListPtrs :
    /\ ~pair.error
    /\ pair' = [init_list(pair, id, ptr) EXCEPT !.op = "init_list",
                                                !.args = <<id, ptr>>]
    /\ PairFrame

InitPairStyle == InitOver({ <<1>> }, {FALSE})

\* the cutoffs of the pair style
NextCutoffs ==
  \/ PairSettings
  \/ PairCoeff

SpecCutoffs == InitPairStyle /\ [][NextCutoffs]_vars

\* the neighbor lists of the pair style
NextLists ==
  \/ PairInitStyle
  \/ PairInitList

SpecLists == InitPairStyle /\ [][NextLists]_vars

\* every call of the manager's interface, one at a time, on either device
FrameArgs == [LifeArgs EXCEPT !.range = { <<0, 0>>, <<1, 1>> }]
FrInitDevice == Quiet /\ InitDeviceOver(FrameArgs)
FrInitLongRange == Quiet /\ InitLongRange
FrClear == Quiet /\ Clear
FrClearDevice == Quiet /\ ClearDevice
FrSetSinglePrecompute == Quiet /\ SetSinglePrecompute
FrSetDoublePrecompute == Quiet /\ SetDoublePrecompute

InitFrame == InitOver({ <<1>> }, {FALSE})

NextFrame ==
  \/ FrInitDevice
  \/ FrInitLongRange
  \/ FrClear
  \/ FrClearDevice
  \/ FrSetSinglePrecompute
  \/ FrSetDoublePrecompute
  \/ EstBegin({0})
  \/ EstSync
  \/ EstBarrier
  \/ EstTimerStart
  \/ EstClockStart
  \/ EstTimerStop(OneTime)
  \/ EstClockStop(OneTime)
  \/ EstReduceTime
  \/ EstReduceDriver
  \/ EstAccumulate
  \/ EstAverage

SpecFrame == InitFrame /\ [][NextFrame]_vars

(***************************************************************************)
(* The properties of the lifecycle.                                        *)
(***************************************************************************)
Buffers == atom.alloc \/ _neighbor_shared
InitCall == op \in {"init", "init_lr"}

\* C1: in every reachable state attach_count >= 0 and the shared device
\* buffers are allocated if and only if attach_count > 0.
C1_BuffersIffAttached ==
  /\ _init_count >= 0
  /\ Buffers <=> _init_count > 0

\* C2: after a sequence of successful init calls and clear calls that starts
\* at Bound/Detached, never has more clears than inits and ends with as many
\* of each, attach_count is 0 and no shared buffer is allocated.
C2_BalancedReleases ==
  (bal = 0 /\ bal_any) => (_init_count = 0 /\ ~Buffers)

\* a balanced sequence has completed on a manager that init_device bound
C2_Witness == bal = 0 /\ bal_any /\ op = "clear" /\ bound_ok

\* C3: after N >= 1 successful init calls in a row, starting at
\* Bound/Detached, attach_count is N, atom.init allocated the storage exactly
\* once and the kernel module was compiled exactly once for the binding.
C3_OneAllocationOneCompile ==
  (bound_ok /\ run >= 1) =>
    (_init_count = run /\ run_allocs = 1 /\ n_compile = 1)

\* C4: after a successful init_device, in every state with attach_count > 0
\* the kernel module is compiled.
C4_AttachedImpliesCompiled ==
  (bound_ok /\ _init_count > 0) => _compiled

\* C5: the compiled-module handle refers to a live module if and only if the
\* compiled flag is true.
C5_HandleIffCompiled ==
  (dev_program = "live") <=> _compiled

\* C6: after clear_device returns the manager is inert: attach_count is 0,
\* it is not bound, no shared buffer is allocated and compiled is false.
C6_ClearDeviceInert ==
  op = "clear_device" =>
    (_init_count = 0 /\ ~_device_init /\ ~Buffers /\ ~_compiled)

\* C8: whenever init_device returns 0 the manager holds a bound device whose
\* index is smaller than the number of devices, and the module is compiled.
C8_ZeroMeansBoundAndCompiled ==
  (op = "init_device" /\ ret = 0) =>
    (gpu.obj = "live" /\ gpu.dev >= 0 /\ gpu.dev < NumDevices /\ _compiled)

\* C9: init returns -1 whenever no init_device has succeeded since the
\* construction or the last clear_device.
C9_UnboundInitReturnsMinusOne ==
  (InitCall /\ ~bound_ok) => ret = -1

(***************************************************************************)
(* The properties of binding.                                              *)
(***************************************************************************)
\* C7: init_device on a manager that is already bound, with the arguments of
\* the binding call (or any others), returns 0 and leaves the device index,
\* the communicators, ranks and sizes, procs_per_device, time_device and the
\* capability constants as they were; the device index is assigned only by
\* the init_device call that binds the manager.
C7_RebindFrame ==
  /\ [][(op' = "init_device" /\ _device_init) =>
          (ret' = 0 /\ UNCHANGED <<gpu, comm, _procs_per_gpu, _time_device,
                                   caps>>)]_vars
  /\ [][(gpu'.dev # gpu.dev /\ gpu'.dev >= 0) =>
          (op' = "init_device" /\ ~_device_init)]_vars

\* a second init_device with the binding call's arguments has returned
C7_Witness ==
  op = "init_device" /\ same_args /\ ret = 0 /\ gpu.dev >= 0 /\ _compiled

\* C17: every process computes procs_per_device as procs_per_node divided
\* by the number of devices of the range, rounded up, and its device index as
\* its rank in its node divided by procs_per_device, rounded down, plus the
\* first device of the range; for 8 processes on 2 hosts of 4 with the
\* devices 0..1, procs_per_device is 2, the ranks 0 and 1 of each host get
\* device 0, the ranks 2 and 3 device 1, and time_device is false.
C17_DeviceAssignment ==
  _device_init =>
    LET ndev == _last_device - _first_device + 1
        ppn == procs_per_node(names)
        local == Cardinality({q \in Ranks : names[q + 1] = names[me + 1]
                                              /\ q < me})
        index == _first_device
                   + (CHOOSE q \in 0 .. local :
                        /\ q * _procs_per_gpu <= local
                        /\ (q + 1) * _procs_per_gpu > local)
    IN /\ _procs_per_gpu * ndev >= ppn
       /\ (_procs_per_gpu - 1) * ndev < ppn
       /\ gpu.dev = IF index < NumDevices THEN index ELSE -1
       /\ (names = <<1, 1, 1, 1, 2, 2, 2, 2>> /\ _first_device = 0
             /\ _last_device = 1) =>
            /\ _procs_per_gpu = 2
            /\ gpu.dev = IF me % 4 \in {0, 1} THEN 0 ELSE 1
            /\ ~_time_device

\* world rank 6 of the 8 processes has been given device 1 of the range 0..1
C17_Witness ==
  /\ _device_init /\ op = "init_device" /\ ret = 0
  /\ names = <<1, 1, 1, 1, 2, 2, 2, 2>> /\ me = 6
  /\ _first_device = 0 /\ _last_device = 1 /\ gpu.dev = 1

\* C18: procs_per_node is the number of processes on the host of world rank
\* 0, the first host met when the gathered names are read in rank order
\* (seen through procs_per_device, which equals it for a range of one
\* device).
C18_FirstSeenHost ==
  (_device_init /\ _first_device = _last_device) =>
    _procs_per_gpu = Cardinality({r \in Ranks : names[r + 1] = names[1]})

\* C19 as claimed: time_device is false for every process that shares its
\* device with another process (per-device communicator larger than 1) and
\* true for every process that is alone on its device.
C19_TimingIffAlone ==
  _device_init =>
    /\ Cardinality(comm.gpu) > 1 => ~_time_device
    /\ Cardinality(comm.gpu) = 1 => _time_device

\* C19 as amended: time_device is false for every process that shares its
\* device with another process; a process that is alone on its device has
\* time_device true exactly when procs_per_device is 1.
C19_TimingOnlyAlone ==
  _device_init =>
    /\ Cardinality(comm.gpu) > 1 => ~_time_device
    /\ Cardinality(comm.gpu) = 1 => (_time_device <=> _procs_per_gpu = 1)

\* the third of three processes of a node with two devices is alone on its
\* device, and is not timed on it
C19_Witness ==
  /\ _device_init /\ op = "init_device" /\ ret = 0
  /\ names = <<1, 1, 1>> /\ me = 2 /\ gpu.dev = 1
  /\ Cardinality(comm.gpu) = 1 /\ ~_time_device

\* C20: after init_device time_device is true exactly when procs_per_device
\* is 1; init_device of a single process with a range of one device, in
\* which nothing fails, returns 0 with procs_per_device 1 and time_device
\* true.
C20_TimingIffOnePerDevice ==
  /\ _device_init => (_time_device <=> _procs_per_gpu = 1)
  /\ (op = "init_device" /\ Len(names) = 1 /\ _first_device = _last_device
        /\ cause = "none") =>
       (ret = 0 /\ _procs_per_gpu = 1 /\ _time_device)

\* the single process has bound the single device of its range
C20_Witness ==
  /\ op = "init_device" /\ ret = 0 /\ bound_ok /\ Len(names) = 1
  /\ _first_device = 0 /\ _last_device = 0 /\ gpu.dev = 0
  /\ _procs_per_gpu = 1 /\ _time_device

(***************************************************************************)
(* The properties of the checks of init.                                   *)
(***************************************************************************)
\* C10: when the accumulation type is double precision and the bound device
\* lacks double precision, init (either overload) returns -5; an init that
\* returns -5 leaves every field of the manager unchanged.
C10_PrecisionMismatch ==
  [][op' \in {"init", "init_lr"} =>
       /\ (_device_init /\ gpu.dev >= 0 /\ acc_double
             /\ ~double_precision(gpu.dev)) => ret' = -5
       /\ ret' = -5 => UNCHANGED mgr_vars]_vars

\* init has returned -5 on a compiled manager with a registered precompute
C10_Witness ==
  /\ InitCall /\ ret = -5
  /\ gpu.dev >= 0 /\ acc_double /\ ~double_precision(gpu.dev)
  /\ _compiled /\ _long_range_precompute # 0

(***************************************************************************)
(* The properties of the teardown.                                         *)
(***************************************************************************)
\* C12: clear_device ends with attach_count 0 in every state and releases
\* only what is held: it deletes the device object only of a bound manager,
\* whose device object is live; a module it releases is live and storage it
\* releases is allocated; on a manager that is not attached it leaves the
\* storage and the module alone, on one that is not bound the device object
\* too; a second clear_device in a row changes nothing.
C12_ClearDeviceSafe ==
  /\ [](_device_init => gpu.obj = "live")
  /\ [][op' = "clear_device" =>
          /\ _init_count' = 0 /\ ~_device_init'
          /\ ~_device_init => UNCHANGED gpu
          /\ (_init_count > 0 /\ _compiled) => dev_program = "live"
          /\ _init_count > 0 => atom.alloc
          /\ _init_count = 0 => UNCHANGED life_vars
          /\ op = "clear_device" => UNCHANGED mgr_vars]_vars

\* clear_device has unbound a manager that was never attached
C12_Witness ==
  op = "clear_device" /\ gpu.obj = "deleted" /\ ~atom.alloc /\ _compiled

\* C13: between an init_device that returns 0 and the next clear_device the
\* kernel module is built at most once, whatever init_device, init and clear
\* calls are made in between.
C13_OneCompilePerBinding == bound_ok => n_compile <= 1

\* init_device has been called again in the binding after the last clear
\* released the module
C13_Witness ==
  bound_ok /\ n_compile = 1 /\ op = "init_device" /\ ret = 0 /\ ~_compiled

(***************************************************************************)
(* The properties of the return codes.                                     *)
(***************************************************************************)
\* C11: init_device returns only 0, -2 or -4: -2 exactly when the device
\* index it computed is not below the number of devices, -4 exactly when the
\* module failed to build or failed the architecture check; init returns
\* only 0, -1, -3 or -5: -3 exactly when atom.init, atom.add_fields, ans.init
\* or nbor->init reported failure.
C11_DistinctCodes ==
  /\ op = "init_device" =>
        /\ ret \in {0, -2, -4}
        /\ ret = -2 <=> cause = "index"
        /\ ret = -4 <=> cause \in {"build", "arch"}
  /\ InitCall =>
        /\ ret \in {0, -1, -3, -5}
        /\ ret = -3 <=> cause = "alloc"

\* init_device has returned -4 for a module newer than the device
C11_Witness == op = "init_device" /\ ret = -4 /\ cause = "arch" /\ gpu.dev >= 0

\* C14: whenever compiled is true the capability constants have been read
\* from the introspection buffer and the module's architecture is not above
\* the device's; an init_device whose compile_kernels returns -4 leaves
\* compiled false.
C14_CompiledMeansUsable ==
  /\ _compiled =>
        /\ caps.warp_size > 0
        /\ gpu.dev >= 0 => (USE_OPENCL \/ caps.ptx_arch <= arch(gpu.dev))
  /\ (op = "init_device" /\ ret = -4) => ~_compiled

(***************************************************************************)
(* The properties of the lane counts.                                      *)
(***************************************************************************)
\* C15: for every warp size W >= 1, default D >= 1 and requested count L,
\* with v = D when L < 1 and v = L otherwise, the resolved lane count R
\* divides W and lies in 1..W: R = W when v > W, R = 1 when v <= W does not
\* divide W, and R = v otherwise.
C15_LaneResolution ==
  lanes.resolved # 0 =>
    LET W == lanes.warp_size
        R == lanes.resolved
        v == IF lanes.requested < 1 THEN lanes.default ELSE lanes.requested
    IN /\ W % R = 0 /\ 1 <= R /\ R <= W
       /\ v > W => R = W
       /\ (v <= W /\ W % v # 0) => R = 1
       /\ (v <= W /\ W % v = 0) => R = v

\* a request above the warp size has been resolved
C15_Witness ==
  lanes.resolved # 0 /\ lanes.requested > lanes.warp_size /\ lanes.warp_size > 1

\* C16: in every state after a first init_device that returned 0, whatever
\* init_device, init and clear calls follow while the manager stays bound,
\* lanes_per_particle and lanes_per_charge each lie in 1..warp size and
\* divide the warp size.
C16_LanesDivideWarp ==
  bound_ok =>
    \A R \in {_threads_per_atom, _threads_per_charge} :
      /\ 1 <= R /\ R <= caps.warp_size
      /\ caps.warp_size % R = 0

(***************************************************************************)
(* The properties of the processes of a world.                             *)
(***************************************************************************)
\* the rank of a process among the processes of its host
LocalRank(p) ==
  Cardinality({q \in Ranks : names[q + 1] = names[p + 1] /\ q < p})

\* C21: all processes compute the same procs_per_node and the same
\* procs_per_device; two processes with the same rank in their nodes get the
\* same device index; a per-device communicator holds exactly the processes
\* of one node that computed the same device index; and a process that
\* binds again, with the same hosts and range, computes what it computed the
\* first time.
C21_ConsistentAssignment ==
  \A p \in Ranks : \A q \in Ranks :
    LET P == mpi.proc[p]
        Q == mpi.proc[q]
    IN /\ (P.ppn > 0 /\ Q.ppn > 0) => P.ppn = Q.ppn
       /\ (P.ppg > 0 /\ Q.ppg > 0) => P.ppg = Q.ppg
       /\ (P.dev >= 0 /\ Q.dev >= 0 /\ LocalRank(p) = LocalRank(q))
            => P.dev = Q.dev
       /\ P.cgpu # {} =>
            P.cgpu = {x \in Ranks : /\ names[x + 1] = names[p + 1]
                                    /\ mpi.proc[x].dev = P.dev}
       /\ (~P.in_call /\ P.prev # <<>>) =>
            P.prev = <<P.ppn, P.ppg, P.dev, P.cgpu>>

\* the three processes on two hosts have all bound, one of them twice
C21_Witness ==
  /\ mpi.proc # <<>> /\ names = <<2, 1, 1>> /\ mpi.range = <<0, 1>>
  /\ \A p \in Ranks : ~mpi.proc[p].in_call /\ mpi.proc[p].cgpu # {}
  /\ \E p \in Ranks : mpi.proc[p].calls = 2 /\ ~mpi.proc[p].skipped

\* C22: an init_device call on a manager that is not bound returns -2
\* exactly when the device index it computes is not below the number of
\* devices, and then sets no device and builds nothing; otherwise the device
\* of that index is set.
C22_OutOfRange ==
  [][(op' = "init_device" /\ ~_device_init) =>
       LET index == _first_device' + (LocalRank(me) \div _procs_per_gpu')
       IN /\ ret' = -2 <=> index >= NumDevices
          /\ ret' = -2 => /\ gpu'.dev = -1
                          /\ UNCHANGED <<_compiled, dev_program, caps>>
          /\ ret' # -2 => gpu'.dev = index]_vars

\* init_device has returned -2 with no device set and nothing built
C22_Witness ==
  /\ op = "init_device" /\ ret = -2 /\ cause = "index"
  /\ gpu.obj = "live" /\ gpu.dev = -1 /\ ~_compiled /\ dev_program = "null"

\* C23: when every process of the world makes its k-th init_device call on
\* a manager that no init_device has bound (none returned 0 since the
\* construction or the last clear_device), every process enters the
\* collectives of the call: none returns at once, which would leave the
\* others waiting in them.
C23_AllUnboundAllJoin ==
  \A k \in 1 .. MaxCalls :
    (\A p \in Ranks : mpi.proc[p].calls = k /\ ~mpi.proc[p].was_ok) =>
      (\A p \in Ranks : ~mpi.proc[p].skipped)

\* C24: when a process has returned from init_device at once, being bound,
\* a process that made the same call on a manager that was not bound, and
\* has entered a collective the first has not, does not return; it is still
\* inside the call.
C24_SkipBlocksGroup ==
  \A r \in Ranks : \A q \in Ranks :
    LET R == mpi.proc[r]
        Q == mpi.proc[q]
    IN (/\ R.calls = Q.calls /\ R.calls > 0
        /\ Q.skipped /\ ~Q.in_call
        /\ ~R.skipped /\ R.at > Q.at) => R.in_call

\* a process waits in MPI_Allgather for one that has returned at once
C24_Witness ==
  /\ mpi.proc # <<>>
  /\ \E r \in Ranks : \E q \in Ranks :
       /\ mpi.proc[r].calls = 2 /\ mpi.proc[q].calls = 2
       /\ mpi.proc[q].skipped /\ ~mpi.proc[q].in_call
       /\ mpi.proc[r].in_call /\ Collective(mpi.proc[r].at) = 1
       /\ mpi.proc[r].at > mpi.proc[q].at

(***************************************************************************)
(* The properties of estimate_gpu_overhead.                                *)
(***************************************************************************)
\* C25: in each trial every process of the per-device communicator
\* receives, for the device timer and for the host clock, the largest value
\* measured by a process of the communicator, which is at least its own; and
\* when the call returns exactly ten trials have been made and each of the
\* two values returned, in every process of the communicator, is the sum of
\* the ten per-trial maxima divided by ten.
C25_MeanOfMax ==
  LET IsMax(r, v) ==
        \A p \in comm.gpu :
          /\ r[p] >= v[p]
          /\ \E q \in comm.gpu : r[p] = v[q]
          /\ \A q \in comm.gpu : r[p] = r[q]
  IN /\ est.pc \in {"reduce_driver", "accumulate"} =>
          IsMax(est.mpi_time, est.time)
     /\ est.pc = "accumulate" => IsMax(est.mpi_driver_time, est.driver_time)
     /\ est.pc = "done" =>
          /\ est.trial = 10
          /\ \A p \in comm.gpu :
               /\ est.gpu_overhead[p] * 10 = est.sum_max
               /\ est.gpu_driver_overhead[p] * 10 = est.sum_driver_max
               /\ \A q \in comm.gpu :
                    /\ est.gpu_overhead[p] = est.gpu_overhead[q]
                    /\ est.gpu_driver_overhead[p] = est.gpu_driver_overhead[q]

\* two processes share the device, and the call has returned values that
\* neither process measured in every trial
C25_Witness ==
  /\ est.pc = "done" /\ Cardinality(comm.gpu) = 2
  /\ est.gpu_overhead[me] = 15 /\ est.gpu_driver_overhead[me] = 12

\* the positions in the current trial of the operations of one kind
EstIdx(e) == {j \in DOMAIN est.log : est.log[j][1] = e}

EstBefore(a, b) == \A j \in EstIdx(a) : \A k \in EstIdx(b) : j < k

\* the trial's operations have all been issued
TrialOver ==
  \/ est.pc \in {"accumulate", "average", "done"}
  \/ est.pc = "sync1" /\ est.trial > 0

\* inside the timed region the inbound transfers, the kernel launches and
\* the outbound transfers follow one another, each once, and the reductions
\* follow the stop of the timer
EstTransfers ==
  /\ \A x \in {"in", "zero", "out"} :
       /\ EstBefore("timer_start", x) /\ EstBefore("clock_start", x)
       /\ EstBefore(x, "timer_stop")
  /\ EstBefore("in", "zero") /\ EstBefore("zero", "out")
  /\ EstBefore("in", "out")
  /\ \A j \in DOMAIN est.log : \A k \in DOMAIN est.log :
       (j < k /\ est.log[j][1] = est.log[k][1]
          /\ est.log[j][1] \in {"in", "zero", "out"}) =>
         est.log[j][2] < est.log[k][2]
  /\ \A x \in {"reduce_time", "reduce_driver"} : EstBefore("timer_stop", x)
  /\ TrialOver =>
       /\ est.trial <= 10
       /\ {est.log[j][2] : j \in EstIdx("in")} = 0 .. (est.n_in - 1)
       /\ {est.log[j][2] : j \in EstIdx("zero")} = 0 .. (est.kernel_calls - 1)
       /\ {est.log[j][2] : j \in EstIdx("out")} = 0 .. (est.n_out - 1)
       /\ \A x \in {"timer_start", "timer_stop", "reduce_time",
                    "reduce_driver"} : Cardinality(EstIdx(x)) = 1

\* C26: in each trial the device synchronisation and the per-device barrier
\* precede the start of the timer; between the start and the stop of the
\* timer the inbound transfers come first, then the kernel launches, then
\* the outbound transfers, each exactly once; the reductions follow the stop.
C26_BarrierThenTimedRegion ==
  /\ EstBefore("sync", "timer_start") /\ EstBefore("barrier", "timer_start")
  /\ EstTransfers

\* C26 (amended): in each trial a device synchronisation and a per-device
\* barrier precede the start of the timer, and a second synchronisation and
\* barrier follow it, ahead of the start of the host clock and of every
\* transfer; then the inbound transfers, the kernel launches and the
\* outbound transfers, each exactly once, before the timer is stopped and
\* the reductions are issued.
C26_TwoBarriers ==
  /\ \A t \in EstIdx("timer_start") :
       /\ {j \in EstIdx("sync") : j < t} = {t - 2}
       /\ {j \in EstIdx("barrier") : j < t} = {t - 1}
       /\ {j \in EstIdx("sync") : j > t} \subseteq {t + 1}
       /\ {j \in EstIdx("barrier") : j > t} \subseteq {t + 2}
  /\ \A x \in {"clock_start", "in", "zero", "out", "timer_stop"} :
       /\ EstBefore("sync", x) /\ EstBefore("barrier", x)
       /\ EstIdx(x) # {} =>
            Cardinality(EstIdx("sync")) = 2 /\ Cardinality(EstIdx("barrier")) = 2
  /\ EstTransfers

\* a trial with two inbound transfers, two kernel launches and an outbound
\* transfer has been completed
C26_Witness ==
  /\ est.pc = "accumulate" /\ est.trial = 9
  /\ est.n_in = 2 /\ est.kernel_calls = 2 /\ est.n_out = 1
  /\ Len(est.log) = 15

(***************************************************************************)
(* The properties of the precompute registration.                          *)
(***************************************************************************)
\* C27: the precompute selector is always none (0), single (1) or double
\* (2); after set_single_precompute it is single and after
\* set_double_precompute it is double; and whenever it is single or double,
\* the last registration made was of that precision and the handle stored for
\* that precision is the argument of that last registration.
C27_LastRegistrationWins ==
  /\ _long_range_precompute \in {0, 1, 2}
  /\ op = "set_single_precompute" => _long_range_precompute = 1
  /\ op = "set_double_precompute" => _long_range_precompute = 2
  /\ _long_range_precompute = 1 =>
       reg.kind = 1 /\ pppm_single = reg.handle
  /\ _long_range_precompute = 2 =>
       reg.kind = 2 /\ pppm_double = reg.handle

\* single-precision handle 2 has been registered last, after handle 1 of
\* both precisions
C27_Witness ==
  /\ op = "set_single_precompute" /\ reg = [kind |-> 1, handle |-> 2]
  /\ pppm_single = 2 /\ pppm_double = 1
  /\ _long_range_precompute = 1 /\ _init_count > 0

(***************************************************************************)
(* The properties of what the calls leave alone.                           *)
(***************************************************************************)
\* C28: no call made on a manager that an init_device call has bound
\* changes the stored host thread count: it is written only by the
\* init_device call that binds the manager.
C28_ThreadCountSetOnce ==
  [][(_device_init /\ bound_ok) => _nthreads' = _nthreads]_vars

\* C29: while the manager stays compiled, no call (init_device, init, clear,
\* clear_device, a precompute registration, a step of
\* estimate_gpu_overhead) writes a capability constant: they change only in
\* a step that compiles or that releases the module.
C29_CapsWrittenOnce ==
  [][(_compiled /\ _compiled') => caps' = caps]_vars

\* a manager compiled for device 0 has been unbound and bound to device 1,
\* and a call of estimate_gpu_overhead has returned on it
C29_Witness ==
  /\ _compiled /\ n_compile = 0 /\ bound_ok /\ gpu.dev = 1
  /\ caps # NoCaps /\ est.pc = "done" /\ reg.kind # 0

(***************************************************************************)
(* The properties of the capability constants.                             *)
(***************************************************************************)
\* C30: on a manager that is compiled and bound to a device by a call that
\* returned 0, the general and the bio pair block sizes are each the
\* smaller of the value the introspection kernel reports and the device's
\* maximum group size, hence at most that group size.
C30_BlockSizesClamped ==
  (_compiled /\ bound_ok /\ gpu.dev >= 0) =>
    /\ caps.block_pair <= group_size(gpu.dev)
    /\ caps.block_bio_pair <= group_size(gpu.dev)
    /\ caps.block_pair = Min(GoodData[7], group_size(gpu.dev))
    /\ caps.block_bio_pair = Min(GoodData[12], group_size(gpu.dev))

C32_ClearDetachesOne ==
  [][(op' = "clear" /\ _init_count > 0) =>
       /\ _init_count' = _init_count - 1
       /\ _device_init /\ _device_init' /\ gpu' = gpu
       /\ IF _init_count' = 0
          THEN /\ ~atom'.alloc /\ ~_neighbor_shared' /\ ~_compiled'
               /\ dev_program' = IF _compiled THEN "deleted" ELSE dev_program
          ELSE UNCHANGED <<atom, _neighbor_shared, _compiled, dev_program>>]_vars

\* one of two attached clients has detached and the buffers and the module
\* are still held
C32_Witness ==
  /\ op = "clear" /\ _init_count = 1 /\ bound_ok
  /\ atom.alloc /\ _compiled /\ dev_program = "live"

(***************************************************************************)
(* The properties of the diagnostics.                                      *)
(***************************************************************************)
\* C33: output_times and output_kspace_times issue, on every rank, the same
\* two reductions over the replica communicator with root 0 (a sum of 8
\* values, then a maximum of 1); only the process with replica rank 0
\* prints; and the per-category device timings are printed only when
\* time_device is true.
C33_RootPrints ==
  op \in {"output_times", "output_kspace_times"} =>
    /\ Len(diag.reduces) = 2
    /\ \A k \in 1 .. 2 :
         diag.reduces[k].root = 0 /\ diag.reduces[k].comm = comm.replica
    /\ <<diag.reduces[1].op, diag.reduces[1].count>> = <<"MPI_SUM", 8>>
    /\ <<diag.reduces[2].op, diag.reduces[2].count>> = <<"MPI_MAX", 1>>
    /\ diag.printed => comm.replica_me = 0
    /\ diag.categories => (diag.printed /\ _time_device)

\* in a replica of three processes that share a device, rank 0 has printed
\* the totals without the device timings
C33_Witness ==
  /\ op = "output_times" /\ Cardinality(comm.replica) = 3
  /\ comm.replica_me = 0 /\ diag.printed /\ ~diag.categories

(***************************************************************************)
(* The properties of estimate_gpu_overhead in a group of processes.        *)
(***************************************************************************)
\* C34: when every process of a per-device communicator calls
\* estimate_gpu_overhead, whatever its kernel_calls, transfer counts and
\* time_device flag: as long as a call has not returned some process can
\* take a step; the processes enter the same kind of collective at the same
\* position of their sequences; and a call that has returned has made 10
\* trials, 20 barriers and 20 max-reductions.
C34_EstimateTerminates ==
  /\ (\E p \in DOMAIN grp : grp[p].pc # "done") => ENABLED NextGroup
  /\ \A p \in DOMAIN grp : \A q \in DOMAIN grp :
       grp[p].at = grp[q].at => grp[p].last = grp[q].last
  /\ \A p \in DOMAIN grp :
       /\ grp[p].barriers <= 20 /\ grp[p].reduces <= 20
       /\ grp[p].pc = "done" =>
            /\ grp[p].trial = 10
            /\ grp[p].barriers = 20 /\ grp[p].reduces = 20

\* both calls have returned, one made without kernels or inbound transfers
\* and untimed, the other with two of each and timed
C34_Witness ==
  /\ DOMAIN grp = GroupProcs
  /\ \A p \in GroupProcs : grp[p].pc = "done"
  /\ grp[0].kernel_calls = 0 /\ grp[0].n_in = 0 /\ ~grp[0].time_device
  /\ grp[1].kernel_calls = 2 /\ grp[1].n_in = 2 /\ grp[1].time_device

(***************************************************************************)
(* The properties of the device assignment.                                *)
(***************************************************************************)
\* every host of the world runs the same number of processes
EqualNodes ==
  \A h \in DOMAIN name_map(names) : \A g \in DOMAIN name_map(names) :
    name_map(names)[h] = name_map(names)[g]

\* C35: when every node runs the same number of processes and
\* first_device <= last_device, the device index every process computes lies
\* in [first_device, last_device], on each node the index does not decrease
\* with the node-local rank, and the per-device communicator holds at most
\* procs_per_device processes.
C35_DevicesInRange ==
  (_device_init /\ EqualNodes /\ _first_device <= _last_device) =>
    LET T == Topology[names]
        g == <<_first_device, _last_device>>
    IN /\ \A p \in Ranks : T[p][g].my_gpu \in _first_device .. _last_device
       /\ \A p \in Ranks : \A q \in Ranks :
            (names[p + 1] = names[q + 1] /\ LocalRank(p) <= LocalRank(q)) =>
              T[p][g].my_gpu <= T[q][g].my_gpu
       /\ gpu.dev \in {-1, T[me][g].my_gpu}
       /\ gpu.dev >= 0 => gpu.dev \in _first_device .. _last_device
       /\ comm.gpu = T[me][g].comm_gpu
       /\ Cardinality(comm.gpu) <= _procs_per_gpu

\* on two nodes of four processes and two devices, the last process of the
\* second node shares device 1 with the process before it
C35_Witness ==
  /\ _device_init /\ op = "init_device" /\ ret = 0
  /\ names = <<1, 1, 1, 1, 2, 2, 2, 2>> /\ me = 7
  /\ _first_device = 0 /\ _last_device = 1 /\ gpu.dev = 1
  /\ comm.gpu = {6, 7} /\ _procs_per_gpu = 2

(***************************************************************************)
(* The properties of the attach count.                                     *)
(***************************************************************************)
\* C36: an init call (either overload) that returns 0 adds exactly 1 to
\* attach_count; one that returns anything else returns -1, -3 or -5 and
\* leaves attach_count as it was.
C36_FailedInitKeepsCount ==
  [][op' \in {"init", "init_lr"} =>
       /\ ret' \in {0, -1, -3, -5}
       /\ ret' = 0 => _init_count' = _init_count + 1
       /\ ret' # 0 => _init_count' = _init_count]_vars

\* an init has failed with -3 while another client was attached
C36_Witness ==
  /\ op = "init" /\ ret = -3 /\ cause = "alloc" /\ _init_count = 1
  /\ atom.alloc /\ bound_ok

\* C37: a clear call that leaves attach_count above 0 does not change the
\* precompute selector.
C37_RegistrationSurvives ==
  [][(op' = "clear" /\ _init_count' > 0) =>
       _long_range_precompute' = _long_range_precompute]_vars

\* C38: clear called with attach_count 0 changes no field of the manager:
\* attach_count, the buffers, the compiled flag and the module, the
\* precompute selector and handles and the device binding stay as they are.
C38_ClearAtZero ==
  [][(op' = "clear" /\ _init_count = 0) => UNCHANGED mgr_vars]_vars

\* clear has been called on a bound, compiled manager with no client
\* attached and a double-precision registration
C38_Witness ==
  /\ op = "clear" /\ _init_count = 0 /\ _long_range_precompute = 2
  /\ _device_init /\ bound_ok /\ _compiled


\* C39: after init_style that got past the charge test, the requests made are:
\* under a respa run with a middle level exactly three, with ids 1, 2, 3; with
\* an inner level and no middle level exactly two, with ids 1 and 3; with no
\* inner level, and in every other run, exactly the one default request.  A
\* call of init_list with id 0, 1, 2, 3 stores the list in list, listinner,
\* listmiddle, listouter and leaves the other three alone; any other id
\* leaves all four alone.
RequestIds == [k \in DOMAIN pair.requests |-> pair.requests[k].id]

C39_StyleRequests ==
  (pair.op = "init_style" /\ pair.args[1]) =>
    LET respa_run == pair.args[2]
        level_inner == pair.args[3]
        level_middle == pair.args[4]
    IN IF respa_run /\ level_middle >= 0 THEN RequestIds = <<1, 2, 3>>
       ELSE IF respa_run /\ level_inner >= 0 THEN RequestIds = <<1, 3>>
       ELSE pair.requests = << NeighRequest >>

C39_ListStored ==
  (pair'.op = "init_list" /\ pair' # pair) =>
    LET id == pair'.args[1]
        ptr == pair'.args[2]
    IN /\ pair'.list = IF id = 0 THEN ptr ELSE pair.list
       /\ pair'.listinner = IF id = 1 THEN ptr ELSE pair.listinner
       /\ pair'.listmiddle = IF id = 2 THEN ptr ELSE pair.listmiddle
       /\ pair'.listouter = IF id = 3 THEN ptr ELSE pair.listouter

C40_SettingsStep ==
  pair'.op = "settings" =>
    /\ pair'.error <=> (pair'.args[1] < 1 \/ pair'.args[1] > 2)
    /\ (pair.allocated /\ ~pair'.error) =>
         \A ij \in TypePairs :
           pair'.cut_lj[ij] = IF pair.setflag[ij] THEN pair'.cut_lj_global
                              ELSE pair.cut_lj[ij]

C40_SettingsResetsCutoffs == [][C40_SettingsStep]_vars

=============================================================================
